---------------------------- MODULE Spec2Model ----------------------------
(***************************************************************************)
(* Comment analysis and recommendation pipeline of src/app.py: the aspect  *)
(* tagger, the location resolver, the keyword category fallback, the       *)
(* recommendation engine with its location augmentation, and the /analyze  *)
(* handler that joins them.                                                *)
(*                                                                         *)
(* Representation of Python values.  A TLA+ string such as "Mumbai" stands *)
(* for the Python str of the same spelling wherever the code only compares *)
(* it as a whole (dictionary keys, labels, list membership).  Wherever the *)
(* code looks inside a str (substring tests, lower(), upper(), f-strings,  *)
(* concatenation) the str is the sequence of its characters, S("Mumbai"),  *)
(* and computed text (the comment, an augmented insight or action) is      *)
(* always such a sequence.  Python lists are sequences, dicts are records  *)
(* or functions; a dict or set whose iteration order the code relies on is *)
(* a sequence in declaration order.                                        *)
(***************************************************************************)
EXTENDS Integers, Sequences, FiniteSets, TLC

\* str.lower() / str.upper() on the letters; every other character is kept.
UpperToLower ==
  [c \in {"A","B","C","D","E","F","G","H","I","J","K","L","M","N","O","P","Q","R","S","T",
          "U","V","W","X","Y","Z"} |->
     CASE c = "A" -> "a" [] c = "B" -> "b" [] c = "C" -> "c" [] c = "D" -> "d"
       [] c = "E" -> "e" [] c = "F" -> "f" [] c = "G" -> "g" [] c = "H" -> "h"
       [] c = "I" -> "i" [] c = "J" -> "j" [] c = "K" -> "k" [] c = "L" -> "l"
       [] c = "M" -> "m" [] c = "N" -> "n" [] c = "O" -> "o" [] c = "P" -> "p"
       [] c = "Q" -> "q" [] c = "R" -> "r" [] c = "S" -> "s" [] c = "T" -> "t"
       [] c = "U" -> "u" [] c = "V" -> "v" [] c = "W" -> "w" [] c = "X" -> "x"
       [] c = "Y" -> "y" [] c = "Z" -> "z"]

LowerToUpper ==
  [c \in {UpperToLower[u] : u \in DOMAIN UpperToLower} |->
     CHOOSE u \in DOMAIN UpperToLower : UpperToLower[u] = c]

lower(s) ==
  [i \in 1..Len(s) |-> IF s[i] \in DOMAIN UpperToLower THEN UpperToLower[s[i]] ELSE s[i]]

upper(s) ==
  [i \in 1..Len(s) |-> IF s[i] \in DOMAIN LowerToUpper THEN LowerToUpper[s[i]] ELSE s[i]]

\* Python's `k in s` for two strs: k occurs in s as a contiguous substring.
Contains(s, k) ==
  \E i \in 0..(Len(s) - Len(k)) : \A j \in 1..Len(k) : s[i + j] = k[j]

\* Python's `x in xs` for a list.
InList(x, xs) == \E i \in 1..Len(xs) : xs[i] = x

\* sep.join(parts) for a list of strs.
RECURSIVE join(_, _)
join(sep, parts) ==
  IF parts = <<>> THEN <<>>
  ELSE IF Len(parts) = 1 THEN parts[1]
  ELSE parts[1] \o sep \o join(sep, Tail(parts))

Reverse(xs) == [i \in 1..Len(xs) |-> xs[Len(xs) + 1 - i]]

(***************************************************************************)
(* The characters of every str literal the code looks inside.              *)
(***************************************************************************)

\* The characters of a str literal: S("EV") = <<"E", "V">>.
S(x) == [i \in 1..Len(x) |-> SubSeq(x, i, i)]

(***************************************************************************)
(* The program's tables, in declaration order.                             *)
(***************************************************************************)
INDIAN_CITIES ==
  <<
    "Mumbai", "Delhi", "Bangalore", "Hyderabad", "Ahmedabad", "Chennai", "Kolkata", "Pune",
    "Jaipur", "Lucknow", "Kanpur", "Nagpur", "Indore", "Thane", "Bhopal", "Visakhapatnam",
    "Patna", "Vadodara", "Ghaziabad", "Ludhiana", "Agra", "Nashik", "Faridabad", "Meerut",
    "Rajkot", "Kalyan-Dombivali", "Vasai-Virar", "Varanasi", "Srinagar", "Aurangabad",
    "Dhanbad", "Amritsar", "Navi Mumbai", "Allahabad", "Ranchi", "Howrah", "Coimbatore",
    "Jabalpur", "Gwalior", "Vijayawada", "Jodhpur", "Madurai", "Raipur", "Kota", "Guwahati",
    "Chandigarh", "Solapur", "Hubballi-Dharwad", "Bareilly", "Moradabad", "Mysore", "Gurgaon",
    "Aligarh", "Jalandhar", "Tiruchirappalli", "Bhubaneswar", "Salem", "Warangal", "Guntur",
    "Bhiwandi", "Saharanpur", "Gorakhpur", "Bikaner", "Amravati", "Noida", "Jamshedpur",
    "Bhilai", "Cuttack", "Firozabad", "Kochi", "Bhavnagar", "Dehradun", "Durgapur", "Asansol",
    "Nanded-Waghala", "Kolhapur", "Ajmer", "Gulbarga", "Jamnagar", "Ujjain", "Loni",
    "Siliguri", "Jhansi", "Ulhasnagar", "Nellore", "Jammu", "Sangli-Miraj & Kupwad", "Belgaum",
    "Mangalore", "Ambattur", "Tirunelveli", "Malegaon", "Gaya", "Jalgaon", "Udaipur",
    "Maheshtala", "Tirupur", "Ongole", "Bhagalpur", "Muzaffarpur", "Bhatpara", "Panihati",
    "Latur", "Dhule", "Rohtak", "Korba", "Bhilwara", "Berhampur", "Muzaffarnagar",
    "Ahmednagar", "Mathura", "Kollam", "Avadi", "Kadapa", "Kamarhati", "Sambalpur", "Bilaspur",
    "Shahjahanpur", "Satara", "Bijapur", "Rampur", "Shivamogga", "Chandrapur", "Junagadh",
    "Thrissur", "Alwar", "Bardhaman", "Kulti", "Kakinada", "Nizamabad", "Parbhani", "Tumkur",
    "Khammam", "Ozhukarai", "Bihar Sharif", "Panipat", "Darbhanga", "Bally", "Aizawl", "Dewas",
    "Ichalkaranji", "Karnal", "Bathinda", "Jalna", "Eluru", "Kirari Suleman Nagar", "Barasat",
    "Purnia", "Satna", "Mau", "Sonipat", "Farrukhabad", "Sagar", "Rourkela", "Durg", "Imphal",
    "Ratlam", "Hapur", "Arrah", "Anantapur", "Karimnagar", "Etawah", "Ambernath",
    "North Dumdum", "Bharatpur", "Begusarai", "New Delhi", "Gandhidham", "Baranagar",
    "Tiruvottiyur", "Puducherry", "Sikar", "Thoothukudi", "Rewa", "Mirzapur", "Raichur",
    "Pali", "Ramagundam", "Silchar", "Orai", "Nandyal", "Morena", "Bhiwani", "Bellary",
    "Hospet", "Karaikudi", "Kishanganj", "Puruliya", "Kurnool", "Rajpur Sonarpur"
  >>

INDIAN_STATES ==
  <<
    "Maharashtra", "Tamil Nadu", "Andhra Pradesh", "Karnataka", "Gujarat", "West Bengal",
    "Rajasthan", "Uttar Pradesh", "Madhya Pradesh", "Bihar", "Odisha", "Telangana", "Kerala",
    "Punjab", "Haryana", "Jharkhand", "Chhattisgarh", "Assam", "Delhi", "Himachal Pradesh",
    "Uttarakhand", "Goa", "Manipur", "Meghalaya", "Tripura", "Mizoram", "Arunachal Pradesh",
    "Nagaland", "Sikkim", "Jammu and Kashmir", "Ladakh", "Chandigarh",
    "Dadra and Nagar Haveli", "Daman and Diu", "Lakshadweep", "Puducherry",
    "Andaman and Nicobar Islands"
  >>

REGIONAL_MAPPING ==
  <<
    [region |-> "North", states |-> <<
        "Delhi", "Punjab", "Haryana", "Himachal Pradesh", "Uttarakhand", "Uttar Pradesh",
        "Rajasthan", "Jammu and Kashmir", "Chandigarh" >>],
    [region |-> "South", states |-> <<
        "Tamil Nadu", "Karnataka", "Andhra Pradesh", "Telangana", "Kerala", "Puducherry",
        "Lakshadweep" >>],
    [region |-> "West", states |-> <<
        "Maharashtra", "Gujarat", "Goa", "Dadra and Nagar Haveli", "Daman and Diu" >>],
    [region |-> "East", states |-> <<
        "West Bengal", "Odisha", "Jharkhand", "Bihar", "Andaman and Nicobar Islands" >>],
    [region |-> "Central", states |-> <<
        "Madhya Pradesh", "Chhattisgarh" >>],
    [region |-> "Northeast", states |-> <<
        "Assam", "Meghalaya", "Manipur", "Tripura", "Mizoram", "Arunachal Pradesh", "Nagaland",
        "Sikkim" >>]
  >>

aspect_keywords ==
  <<
    [aspect |-> "Service", keywords |-> <<
        "service", "dealer", "dealership", "staff", "repair", "maintenance", "support",
        "customer care", "after-sales", "service center", "technician" >>],
    [aspect |-> "Features", keywords |-> <<
        "features", "infotainment", "technology", "safety", "airbag", "abs", "touchscreen",
        "connectivity", "bluetooth", "android auto", "carplay" >>],
    [aspect |-> "EV", keywords |-> <<
        "ev", "nexon ev", "tiago ev", "charging", "range", "battery", "electric", "charge",
        "mileage per charge", "charging station", "battery life" >>],
    [aspect |-> "Price", keywords |-> <<
        "price", "cost", "expensive", "cheap", "value", "money", "budget", "affordable",
        "pricing", "value for money", "overpriced", "worth" >>],
    [aspect |-> "Build Quality", keywords |-> <<
        "build", "quality", "construction", "material", "durability", "solid", "sturdy",
        "plastic", "fit", "finish", "panel gaps", "interior quality" >>],
    [aspect |-> "Performance", keywords |-> <<
        "performance", "speed", "acceleration", "power", "engine", "smooth", "handling",
        "drive", "pickup", "torque", "responsive" >>],
    [aspect |-> "Design", keywords |-> <<
        "design", "look", "appearance", "styling", "beautiful", "ugly", "attractive",
        "interior", "exterior", "dashboard", "seats" >>],
    [aspect |-> "Fuel Efficiency", keywords |-> <<
        "mileage", "fuel", "efficiency", "consumption", "economy", "petrol", "diesel",
        "fuel economy", "kmpl" >>],
    [aspect |-> "Sound System", keywords |-> <<
        "sound", "audio", "music", "harman", "speakers", "bass", "treble", "sound system",
        "acoustics" >>],
    [aspect |-> "Comfort", keywords |-> <<
        "comfort", "comfortable", "seat", "seating", "space", "legroom", "headroom",
        "ergonomic", "cushioning", "ventilated seats" >>]
  >>

complaint_words ==
  <<
    "terrible", "bad", "worst", "hate", "awful", "disappointed", "problem", "issue", "complain"
  >>

praise_words ==
  <<
    "love", "great", "excellent", "amazing", "fantastic", "best", "good", "awesome", "recommend"
  >>

suggestion_words ==
  <<
    "should", "could", "wish", "hope", "suggest", "improve", "better", "add", "include"
  >>

purchase_words ==
  <<
    "buy", "purchase", "confused", "which", "variant", "price", "cost", "thinking"
  >>

comparison_words ==
  <<
    "vs", "versus", "compared", "better than", "hyundai", "maruti", "kia"
  >>

RECOMMENDATION_RULES ==
     <<"Complaint / Criticism", "Service">> :>
       [insight  |-> S("Customers are reporting negative experiences with dealership service..."),
        strategy |-> "Service Excellence Initiative",
        action   |-> S("Immediately review service center protocols and staff training programs..."),
        priority |-> "High"]
  @@ <<"Praise / Satisfaction", "Features">> :>
       [insight  |-> S("Customers highly appreciate current feature offerings..."),
        strategy |-> "Feature Leadership Amplification",
        action   |-> S("Leverage positive feedback in marketing campaigns and product showcases..."),
        priority |-> "Medium"]
  @@ <<"Complaint / Criticism", "Price">> :>
       [insight  |-> S("Customers expressing concerns about pricing and value proposition..."),
        strategy |-> "Value Communication Strategy",
        action   |-> S("Review pricing structure and enhance value messaging in communications..."),
        priority |-> "High"]
  @@ <<"Praise / Satisfaction", "Performance">> :>
       [insight  |-> S("Customers are satisfied with vehicle performance characteristics..."),
        strategy |-> "Performance Excellence Showcase",
        action   |-> S("Highlight performance strengths in product communications and testimonials..."),
        priority |-> "Medium"]
  @@ <<"Inquiry / Question", "Features">> :>
       [insight  |-> S("Customers seeking more information about available features..."),
        strategy |-> "Feature Education Campaign",
        action   |-> S("Develop comprehensive feature guides and interactive demonstrations..."),
        priority |-> "Low"]
  @@ <<"Complaint / Criticism", "Quality">> :>
       [insight  |-> S("Customers reporting quality issues with vehicles..."),
        strategy |-> "Quality Assurance Enhancement",
        action   |-> S("Investigate quality control processes and implement corrective measures..."),
        priority |-> "High"]
  @@ <<"Praise / Satisfaction", "Design">> :>
       [insight  |-> S("Customers are praising vehicle design and aesthetics..."),
        strategy |-> "Design Excellence Promotion",
        action   |-> S("Feature design highlights in marketing materials and showrooms..."),
        priority |-> "Medium"]
  @@ <<"Suggestion / Feature Request", "Technology">> :>
       [insight  |-> S("Customers requesting advanced technology features..."),
        strategy |-> "Innovation Roadmap Development",
        action   |-> S("Evaluate feasibility of requested tech features for future models..."),
        priority |-> "Medium"]
  @@ <<"Complaint / Criticism", "Comfort">> :>
       [insight  |-> S("Customers reporting comfort-related issues..."),
        strategy |-> "Comfort Enhancement Initiative",
        action   |-> S("Review seat design and cabin ergonomics for improvements..."),
        priority |-> "Medium"]
  @@ <<"Praise / Satisfaction", "Safety">> :>
       [insight  |-> S("Customers appreciating safety features and ratings..."),
        strategy |-> "Safety Leadership Messaging",
        action   |-> S("Promote safety achievements and certifications in marketing..."),
        priority |-> "Medium"]
  @@ <<"Competitive Comparison", "Features">> :>
       [insight  |-> S("Customers comparing features with competitor vehicles..."),
        strategy |-> "Competitive Differentiation",
        action   |-> S("Analyze competitor features and strengthen unique value propositions..."),
        priority |-> "Medium"]
  @@ <<"Inquiry / Question", "Price">> :>
       [insight  |-> S("Customers inquiring about pricing and financing options..."),
        strategy |-> "Pricing Transparency Initiative",
        action   |-> S("Improve pricing communication and financing option visibility..."),
        priority |-> "Low"]
  @@ <<"Suggestion / Feature Request", "Design">> :>
       [insight  |-> S("Customers suggesting design improvements or modifications..."),
        strategy |-> "Customer-Centric Design Evolution",
        action   |-> S("Document design suggestions for consideration in future model updates..."),
        priority |-> "Low"]
  @@ <<"Complaint / Criticism", "Technology">> :>
       [insight  |-> S("Customers reporting issues with technology features..."),
        strategy |-> "Technology Enhancement Program",
        action   |-> S("Review and upgrade software/hardware systems based on feedback..."),
        priority |-> "High"]
  @@ <<"Praise / Satisfaction", "Service">> :>
       [insight  |-> S("Customers praising excellent service experiences..."),
        strategy |-> "Service Excellence Recognition",
        action   |-> S("Recognize outstanding service teams and replicate best practices..."),
        priority |-> "Low"]

DEFAULT_RECOMMENDATION ==
  [insight  |-> S("Customer feedback requires individual assessment..."),
   strategy |-> "Personalized Response Strategy",
   action   |-> S("Route to appropriate customer service team for detailed review..."),
   priority |-> "Medium"]

(***************************************************************************)
(* State.                                                                  *)
(*   hash_order      the iteration order this process gives to its str     *)
(*                   sets (INDIAN_CITIES, INDIAN_STATES, detected_regions):*)
(*                   fixed by the interpreter's hash seed at startup       *)
(*   text            the comment under analysis                            *)
(*   category, aspects, location_data, bert_sentiment, vader_sentiment     *)
(*                   the arguments of the recommendation engine            *)
(*   result          the operation applied last and the value it returned  *)
(*   aspects_cache, location_cache                                         *)
(*                   the lru_cache of analyze_aspects and of               *)
(*                   detect_location                                       *)
(*   next_fresh, pc  the client: the next comment of its pool, and how far *)
(*                   the request in progress has come                      *)
(*   first_returned  history: what each detector first returned for Probe  *)
(*   bert_classifier, vader_analyzer, intent_classifier                    *)
(*                   the globals holding the models, None when absent      *)
(*   bert_call, vader_call                                                 *)
(*                   what bert_classifier(text) and                        *)
(*                   vader_analyzer.polarity_scores(text) do when called   *)
(*   payload         the JSON body of the request being served             *)
(*   bert_cache      the lru_cache of bert_sentiment_analysis              *)
(*   calls           history: the functions the request in progress called *)
(*                   and the caches it found when it arrived               *)
(*   last_probe      history: the value of next_fresh when the client last *)
(*                   sent Probe, 0 before it did                           *)
(*   tables          the process-wide objects built at import or startup   *)
(*   threads         the requests being served concurrently, each with the *)
(*                   local variables of its handler                        *)
(*   use_fallback, backend_call                                            *)
(*                   the dashboard: the argument of                        *)
(*                   identify_brand_with_backend and what its POST to the  *)
(*                   backend does                                          *)
(***************************************************************************)
VARIABLES hash_order, text, category, aspects, location_data, bert_sentiment,
          vader_sentiment, result, aspects_cache, location_cache, next_fresh, pc,
          first_returned, bert_classifier, vader_analyzer, intent_classifier,
          bert_call, vader_call, payload, bert_cache, calls, last_probe, tables,
          threads, use_fallback, backend_call

cache_vars == <<aspects_cache, location_cache, next_fresh, pc, first_returned>>

model_vars == <<bert_classifier, vader_analyzer, intent_classifier, bert_call, vader_call>>

request_vars == <<payload, bert_cache, calls>>

dashboard_vars == <<use_fallback, backend_call>>

vars == <<hash_order, text, category, aspects, location_data, bert_sentiment,
          vader_sentiment, result, cache_vars, model_vars, request_vars, last_probe,
          tables, threads, dashboard_vars>>

None == [none |-> TRUE]

NoResult == [op |-> "none"]

\* No comment: the handlers reject the empty text.
NoText == <<>>

(***************************************************************************)
(* Iteration over a set of strs.  CPython iterates a set in the order of   *)
(* its hash table, which depends on the process's hash seed and not on the *)
(* order the literal was written in: within one process the order of an    *)
(* unmodified set is fixed, between processes it is any order.  The model  *)
(* lets a process have one of two orders.                                  *)
(***************************************************************************)
HashOrders == {"declared", "reversed"}

\* `for x in xs` over a set written as xs, in a process whose order is `order`.
SetIter(order, xs) == IF order = "declared" THEN xs ELSE Reverse(xs)

\* list(some_set): the members of `set`, a subset of `universe`, in that order.
ListOfSet(order, set, universe) == SelectSeq(SetIter(order, universe), LAMBDA x : x \in set)

(***************************************************************************)
(* detect_location (the decorated function's body)                         *)
(***************************************************************************)
RegionNames == [i \in 1..Len(REGIONAL_MAPPING) |-> REGIONAL_MAPPING[i].region]

\* The regions the loop over REGIONAL_MAPPING.items() adds for a matched city.
CityRegions(city) ==
  {REGIONAL_MAPPING[i].region : i \in
     {i \in 1..Len(REGIONAL_MAPPING) :
        LET states == REGIONAL_MAPPING[i].states IN
        IF city \in {"Mumbai", "Pune", "Nagpur", "Nashik", "Aurangabad"}
          THEN InList("Maharashtra", states)
        ELSE IF city \in {"Delhi", "New Delhi", "Gurgaon", "Faridabad", "Noida"}
          THEN InList("Delhi", states) \/ InList("Haryana", states)
               \/ InList("Uttar Pradesh", states)
        ELSE IF city \in {"Bangalore", "Mysore"} THEN InList("Karnataka", states)
        ELSE IF city \in {"Chennai", "Madurai", "Coimbatore"}
          THEN InList("Tamil Nadu", states)
        ELSE IF city \in {"Kolkata", "Howrah"} THEN InList("West Bengal", states)
        ELSE IF city \in {"Hyderabad"} THEN InList("Telangana", states)
        ELSE IF city \in {"Ahmedabad", "Rajkot", "Vadodara"}
          THEN InList("Gujarat", states)
        ELSE IF city \in {"Jaipur", "Jodhpur", "Udaipur"}
          THEN InList("Rajasthan", states)
        ELSE FALSE}}

\* A lookup of the upper-cased state name, which no list of REGIONAL_MAPPING holds.
StateRegions_upper_case(state) ==
  {REGIONAL_MAPPING[i].region : i \in
     {i \in 1..Len(REGIONAL_MAPPING) :
        \E k \in 1..Len(REGIONAL_MAPPING[i].states) :
          S(REGIONAL_MAPPING[i].states[k]) = upper(S(state))}}

\* The regions the loop over REGIONAL_MAPPING.items() adds for a matched state.
StateRegions(state) ==
  {REGIONAL_MAPPING[i].region : i \in
     {i \in 1..Len(REGIONAL_MAPPING) : InList(state, REGIONAL_MAPPING[i].states)}}

\* detect_location in a process whose set iteration order is `order`.
detect_location_ordered(order, t) ==
  LET text_upper == upper(t)
      detected_cities ==
        SelectSeq(SetIter(order, INDIAN_CITIES),
                  LAMBDA city : Contains(text_upper, upper(S(city))))
      detected_states ==
        SelectSeq(SetIter(order, INDIAN_STATES),
                  LAMBDA state : Contains(text_upper, upper(S(state))))
      detected_regions ==
        UNION {CityRegions(detected_cities[i]) : i \in 1..Len(detected_cities)}
        \cup UNION {StateRegions(detected_states[i]) : i \in 1..Len(detected_states)}
  IN  [cities       |-> detected_cities,
       states       |-> detected_states,
       regions      |-> ListOfSet(order, detected_regions, RegionNames),
       has_location |-> (detected_cities # <<>> \/ detected_states # <<>>)]

\* A resolver whose has_location looks at the cities alone.
detect_location_cities_only(t) ==
  LET found == detect_location_ordered(hash_order, t)
  IN  [found EXCEPT !.has_location = (found.cities # <<>>)]

detect_location(t) == detect_location_ordered(hash_order, t)

(***************************************************************************)
(* analyze_aspects (the decorated function's body)                         *)
(***************************************************************************)
AnyKeyword(keywords, s) == \E k \in 1..Len(keywords) : Contains(s, S(keywords[k]))

\* A matcher that looks for the keywords in the text as written, not lower-cased.
analyze_aspects_case_sensitive(t) ==
  LET matched == SelectSeq(aspect_keywords, LAMBDA e : AnyKeyword(e.keywords, t))
  IN  [i \in 1..Len(matched) |-> matched[i].aspect]

analyze_aspects(t) ==
  LET text_lower == lower(t)
      matched == SelectSeq(aspect_keywords,
                           LAMBDA e : AnyKeyword(e.keywords, text_lower))
  IN  [i \in 1..Len(matched) |-> matched[i].aspect]

(***************************************************************************)
(* predict_category_fallback                                               *)
(***************************************************************************)
\* A classifier that checks the praise bucket before the complaint bucket.
predict_category_fallback_praise_first(t) ==
  LET text_lower == lower(t) IN
  IF AnyKeyword(praise_words, text_lower) THEN "Praise / Satisfaction"
  ELSE IF AnyKeyword(complaint_words, text_lower) THEN "Complaint / Criticism"
  ELSE IF AnyKeyword(suggestion_words, text_lower) THEN "Suggestion / Feature Request"
  ELSE IF AnyKeyword(purchase_words, text_lower) THEN "Purchase Intent / Inquiry"
  ELSE IF AnyKeyword(comparison_words, text_lower) THEN "Competitive Comparison"
  ELSE "General Feedback"

predict_category_fallback(t) ==
  LET text_lower == lower(t) IN
  IF AnyKeyword(complaint_words, text_lower) THEN "Complaint / Criticism"
  ELSE IF AnyKeyword(praise_words, text_lower) THEN "Praise / Satisfaction"
  ELSE IF AnyKeyword(suggestion_words, text_lower) THEN "Suggestion / Feature Request"
  ELSE IF AnyKeyword(purchase_words, text_lower) THEN "Purchase Intent / Inquiry"
  ELSE IF AnyKeyword(comparison_words, text_lower) THEN "Competitive Comparison"
  ELSE "General Feedback"

(***************************************************************************)
(* Comments.  A comment is up to MaxWords fragments of Vocabulary joined   *)
(* by single spaces; the fragments carry keywords of every bucket, aspect  *)
(* keywords in both cases and inside other words, and city and state names.*)
(***************************************************************************)
Vocabulary ==
  <<"Terrible service", "love my Nexon EV", "should add FEATURES", "price",
    "better than Kia", "vs Hyundai", "never", "Mumbai", "New Delhi", "Kerala",
    "Ladakh", "Lucknow">>

MaxWords == 2

RECURSIVE WordLists(_)
WordLists(n) ==
  IF n = 0 THEN {<<>>}
  ELSE LET shorter == WordLists(n - 1) IN
       shorter \cup {Append(ws, w) : ws \in {x \in shorter : Len(x) = n - 1},
                                      w \in 1..Len(Vocabulary)}

TextOf(ws) == join(S(" "), [i \in 1..Len(ws) |-> S(Vocabulary[ws[i]])])

Texts == {TextOf(ws) : ws \in WordLists(MaxWords) \ {<<>>}}

(***************************************************************************)
(* The recommendation engine                                               *)
(***************************************************************************)
\* dict.get(key, default)
Get(d, key, default) == IF key \in DOMAIN d THEN d[key] ELSE default

\* f"BERT: {bert_sent}, VADER: {vader_sent}"
SentimentConsensus(bert_sent, vader_sent) ==
  S("BERT: ") \o S(bert_sent) \o S(", VADER: ") \o S(vader_sent)

\* A priority mapping that takes one negative sentiment for a consensus.
base_priority_either_negative(cat, bert_sent, vader_sent) ==
  IF cat \in {"Complaint / Criticism"} \/ (bert_sent = "negative" \/ vader_sent = "negative")
    THEN "High"
  ELSE IF cat \in {"Suggestion / Feature Request"} THEN "Medium"
  ELSE "Low"

\* Priority mapping based on sentiment and category.
base_priority(cat, bert_sent, vader_sent) ==
  IF cat \in {"Complaint / Criticism"} \/ (bert_sent = "negative" /\ vader_sent = "negative")
    THEN "High"
  ELSE IF cat \in {"Suggestion / Feature Request"} THEN "Medium"
  ELSE "Low"

generate_recommendation(cat, asp, bert, vader) ==
  LET bert_sent == Get(bert, "sentiment", "neutral")
      vader_sent == Get(vader, "sentiment", "neutral")
      consensus == SentimentConsensus(bert_sent, vader_sent)
      default ==
        [insight  |-> S("General customer feedback received requiring attention and follow-up."),
         strategy |-> "Customer Relationship Management",
         action   |-> S("Follow up with customer to gather more specific feedback and ensure satisfaction."),
         priority |-> base_priority(cat, bert_sent, vader_sent),
         sentiment_consensus |-> consensus]
  IN
  IF cat = "Complaint / Criticism" \/ bert_sent = "negative" THEN
    IF InList("Service", asp) THEN
      [insight  |-> S("Customers are reporting negative experiences with dealership service and after-sales support."),
       strategy |-> "Service Excellence Initiative",
       action   |-> S("Immediately review service center protocols, conduct staff retraining, and implement customer feedback loop."),
       priority |-> "High",
       sentiment_consensus |-> consensus]
    ELSE IF InList("EV", asp) THEN
      [insight  |-> S("Customers facing challenges with EV-related features, charging, or range anxiety."),
       strategy |-> "EV Experience Enhancement",
       action   |-> S("Investigate EV-specific issues, improve charging infrastructure partnerships, and enhance customer education."),
       priority |-> "High",
       sentiment_consensus |-> consensus]
    ELSE IF InList("Build Quality", asp) THEN
      [insight  |-> S("Customers expressing dissatisfaction with build quality and materials used."),
       strategy |-> "Quality Assurance Overhaul",
       action   |-> S("Escalate to manufacturing team for comprehensive quality audit and supplier assessment."),
       priority |-> "High",
       sentiment_consensus |-> consensus]
    ELSE default
  ELSE IF cat = "Praise / Satisfaction" \/ bert_sent = "positive" THEN
    IF InList("Features", asp) THEN
      [insight  |-> S("Customers highly appreciate current feature offerings and technological innovations."),
       strategy |-> "Feature Leadership Amplification",
       action   |-> S("Leverage positive feedback in marketing campaigns and accelerate similar feature development."),
       priority |-> "Medium",
       sentiment_consensus |-> consensus]
    ELSE IF InList("Service", asp) THEN
      [insight  |-> S("Customers satisfied with service quality at specific touchpoints."),
       strategy |-> "Service Excellence Replication",
       action   |-> S("Document and replicate successful service practices across all dealership networks."),
       priority |-> "Medium",
       sentiment_consensus |-> consensus]
    ELSE default
  ELSE IF cat = "Suggestion / Feature Request" THEN
    IF InList("Features", asp) THEN
      [insight  |-> S("Customers actively suggesting new features and improvements."),
       strategy |-> "Customer-Driven Innovation",
       action   |-> S("Prioritize suggested features in product roadmap and establish customer co-creation program."),
       priority |-> "Medium",
       sentiment_consensus |-> consensus]
    ELSE default
  ELSE IF cat = "Purchase Intent / Inquiry" THEN
    [insight  |-> S("Customer showing interest in purchase and seeking detailed information."),
     strategy |-> "Sales Conversion Optimization",
     action   |-> S("Ensure sales team follows up promptly with comprehensive product information and test drive offers."),
     priority |-> "High",
     sentiment_consensus |-> consensus]
  ELSE IF cat = "Competitive Comparison" THEN
    [insight  |-> S("Customer comparing Tata Motors products with competitors."),
     strategy |-> "Competitive Positioning",
     action   |-> S("Analyze competitor advantages mentioned and strengthen unique value propositions in marketing."),
     priority |-> "Medium",
     sentiment_consensus |-> consensus]
  ELSE default

\* A lookup that keeps the last matching aspect instead of returning at the first.
generate_recommendation_v2_last_match(cat, asp, bert, vader) ==
  LET hits == SelectSeq(asp, LAMBDA aspect : <<cat, aspect>> \in DOMAIN RECOMMENDATION_RULES)
  IN  IF hits # <<>> THEN RECOMMENDATION_RULES[<<cat, hits[Len(hits)]>>]
      ELSE DEFAULT_RECOMMENDATION

\* A lookup that falls off its end, returning None, when no rule is found.
generate_recommendation_v2_no_default(cat, asp, bert, vader) ==
  LET hits == SelectSeq(asp, LAMBDA aspect : <<cat, aspect>> \in DOMAIN RECOMMENDATION_RULES)
  IN  IF hits # <<>> THEN RECOMMENDATION_RULES[<<cat, hits[1]>>]
      ELSE None

generate_recommendation_v2(cat, asp, bert, vader) ==
  LET hits == SelectSeq(asp, LAMBDA aspect : <<cat, aspect>> \in DOMAIN RECOMMENDATION_RULES)
  IN  IF hits # <<>> THEN RECOMMENDATION_RULES[<<cat, hits[1]>>]
      ELSE DEFAULT_RECOMMENDATION

metro_cities == {"Mumbai", "Delhi", "Bangalore", "Chennai", "Kolkata", "Hyderabad"}

tier2_cities == {"Pune", "Jaipur", "Ahmedabad", "Lucknow", "Kanpur", "Nagpur"}

\* location_context: the clause put in front of the insight.
LocationContext(cities) ==
  IF cities # <<>> THEN S("Feedback from ") \o S(cities[1]) \o S(" market indicates ")
  ELSE S("")

\* City clauses that take a tier-2 city for a metro city.
CityActions_tier2_as_metro(cities) ==
  IF cities # <<>> THEN
    LET primary_city == cities[1] IN
    IF primary_city \in metro_cities \cup tier2_cities THEN
      <<S("Prioritize ") \o S(primary_city) \o S(" metro market initiatives"),
        S("Leverage urban dealership network for immediate response")>>
    ELSE
      <<S("Develop ") \o S(primary_city) \o S(" emerging market strategy"),
        S("Consider service network expansion in this region")>>
  ELSE <<>>

\* "City-specific strategies": the clauses for the primary city.
CityActions(cities) ==
  IF cities # <<>> THEN
    LET primary_city == cities[1] IN
    IF primary_city \in metro_cities THEN
      <<S("Prioritize ") \o S(primary_city) \o S(" metro market initiatives"),
        S("Leverage urban dealership network for immediate response")>>
    ELSE IF primary_city \in tier2_cities THEN
      <<S("Strengthen ") \o S(primary_city) \o S(" tier-2 market presence"),
        S("Focus on regional dealership training and support")>>
    ELSE
      <<S("Develop ") \o S(primary_city) \o S(" emerging market strategy"),
        S("Consider service network expansion in this region")>>
  ELSE <<>>

\* "Regional strategies": the clauses for the primary region.
RegionActions(regions) ==
  IF regions # <<>> THEN
    LET primary_region == regions[1] IN
    <<S("Implement region-wide strategy for ") \o S(primary_region) \o S(" markets")>>
    \o (IF primary_region = "South"
          THEN <<S("Leverage strong South Indian market base for expansion")>>
        ELSE IF primary_region = "West"
          THEN <<S("Capitalize on West region's commercial vehicle demand")>>
        ELSE IF primary_region = "North"
          THEN <<S("Address North region's diverse customer preferences")>>
        ELSE <<>>)
  ELSE <<>>

\* Clauses collected with the regional strategies as the alternative of the city
\* strategies (elif regions) instead of following them.
LocationActions_city_else_region(cities, regions) ==
  IF cities # <<>> THEN CityActions(cities) ELSE RegionActions(regions)

\* location_actions: the clauses collected for the action.
LocationActions(cities, regions) == CityActions(cities) \o RegionActions(regions)

\* enhanced_recommendation: the copy of the base recommendation that
\* generate_location_recommendation rewrites for the detected location.
enhanced_recommendation(base_recommendation, loc) ==
  LET cities == Get(loc, "cities", <<>>)
      regions == Get(loc, "regions", <<>>)
      location_context == LocationContext(cities)
      location_actions == LocationActions(cities, regions)
  IN  [k \in DOMAIN base_recommendation \cup {"location_context"} |->
         IF k = "insight" THEN location_context \o lower(base_recommendation.insight)
         ELSE IF k = "action"
           THEN base_recommendation.action \o S(" ") \o join(S(" "), location_actions)
         ELSE IF k = "location_context" THEN
           [detected_locations |-> loc,
            geographic_focus |-> IF cities # <<>> THEN cities[1]
                                 ELSE IF regions # <<>> THEN regions[1]
                                 ELSE "National",
            market_type |-> IF cities # <<>> /\ cities[1] \in metro_cities
                            THEN "Metro" ELSE "Regional"]
         ELSE base_recommendation[k]]

\* The augmentation without the early return for has_location = False.
generate_location_recommendation_unguarded(cat, asp, loc, bert, vader) ==
  enhanced_recommendation(generate_recommendation(cat, asp, bert, vader), loc)

generate_location_recommendation(cat, asp, loc, bert, vader) ==
  LET base_recommendation == generate_recommendation(cat, asp, bert, vader) IN
  IF ~loc.has_location THEN base_recommendation
  ELSE enhanced_recommendation(base_recommendation, loc)

\* A handler that keeps whatever the rule-table lookup returns.
strategic_recommendation_rule_only(cat, asp, loc, bert, vader) ==
  IF loc.has_location THEN generate_location_recommendation(cat, asp, loc, bert, vader)
  ELSE generate_recommendation_v2(cat, asp, bert, vader)

\* analyze_comment, "Generate location-aware strategic recommendation".
strategic_recommendation(cat, asp, loc, bert, vader) ==
  IF loc.has_location THEN generate_location_recommendation(cat, asp, loc, bert, vader)
  ELSE LET by_rule == generate_recommendation_v2(cat, asp, bert, vader) IN
       IF by_rule = DEFAULT_RECOMMENDATION
         THEN generate_recommendation(cat, asp, bert, vader)
       ELSE by_rule

(***************************************************************************)
(* The memoised detectors.  analyze_aspects and detect_location are        *)
(* wrapped by functools.lru_cache(maxsize=128): a call whose argument is   *)
(* in the cache returns the stored result and makes the entry the most     *)
(* recently used; any other call runs the function, stores the result as   *)
(* the most recently used entry and, when the cache is full, drops the     *)
(* least recently used one.  A cache is the sequence of its entries, least *)
(* recently used first.  Neither handler writes into a returned list or    *)
(* dict, so an entry keeps the value it was stored with.                   *)
(***************************************************************************)
maxsize == 128

\* The position of `key` in the cache, 0 when it is absent.
lru_find(cache, key) ==
  IF \E i \in 1..Len(cache) : cache[i].key = key
    THEN CHOOSE i \in 1..Len(cache) : cache[i].key = key
  ELSE 0

\* A wrapper that, on a hit, hands out the most recently stored result instead of
\* the entry of the key.
lru_call_latest_entry(cache, key, computed) ==
  LET at == lru_find(cache, key) IN
  IF at # 0 THEN
    [cache |-> SubSeq(cache, 1, at - 1) \o SubSeq(cache, at + 1, Len(cache))
               \o <<cache[at]>>,
     value |-> cache[Len(cache)].value,
     hit   |-> TRUE]
  ELSE
    [cache |-> (IF Len(cache) >= maxsize THEN Tail(cache) ELSE cache)
               \o <<[key |-> key, value |-> computed]>>,
     value |-> computed,
     hit   |-> FALSE]

\* A wrapper whose hit leaves the entry where it is: the cache evicts in the
\* order of insertion.
lru_call_first_in_first_out(cache, key, computed) ==
  LET at == lru_find(cache, key) IN
  IF at # 0 THEN [cache |-> cache, value |-> cache[at].value, hit |-> TRUE]
  ELSE
    [cache |-> (IF Len(cache) >= maxsize THEN Tail(cache) ELSE cache)
               \o <<[key |-> key, value |-> computed]>>,
     value |-> computed,
     hit   |-> FALSE]

\* One call through the wrapper; `computed` is what the wrapped function returns.
lru_call(cache, key, computed) ==
  LET at == lru_find(cache, key) IN
  IF at # 0 THEN
    [cache |-> SubSeq(cache, 1, at - 1) \o SubSeq(cache, at + 1, Len(cache))
               \o <<cache[at]>>,
     value |-> cache[at].value,
     hit   |-> TRUE]
  ELSE
    [cache |-> (IF Len(cache) >= maxsize THEN Tail(cache) ELSE cache)
               \o <<[key |-> key, value |-> computed]>>,
     value |-> computed,
     hit   |-> FALSE]

\* No model is loaded and no library call is in question.
NoModels ==
  /\ bert_classifier = None
  /\ vader_analyzer = None
  /\ intent_classifier = None
  /\ bert_call = None
  /\ vader_call = None

\* No request has been received.
NoRequest ==
  /\ payload = None
  /\ bert_cache = <<>>
  /\ calls = [functions |-> {}, caches |-> <<>>]
  /\ last_probe = 0
  /\ tables = None
  /\ threads = <<>>
  /\ use_fallback = FALSE
  /\ backend_call = None

\* The caches of a process that has served no request.
NoCaches ==
  /\ aspects_cache = <<>>
  /\ location_cache = <<>>
  /\ next_fresh = 1
  /\ pc = "idle"
  /\ first_returned = [analyze_aspects |-> None, detect_location |-> None]

(***************************************************************************)
(* The text functions applied to one comment.                              *)
(***************************************************************************)
InitText ==
  /\ hash_order \in HashOrders
  /\ text \in Texts
  /\ category = None
  /\ aspects = None
  /\ location_data = None
  /\ bert_sentiment = None
  /\ vader_sentiment = None
  /\ result = NoResult
  /\ NoCaches
  /\ NoModels
  /\ NoRequest

Inputs == <<hash_order, text, category, aspects, location_data, bert_sentiment,
            vader_sentiment, cache_vars, model_vars, request_vars, last_probe, tables,
            threads, dashboard_vars>>

Apply_predict_category_fallback ==
  /\ result = NoResult
  /\ result' = [op |-> "predict_category_fallback",
                value |-> predict_category_fallback(text)]
  /\ UNCHANGED Inputs

Apply_analyze_aspects ==
  /\ result = NoResult
  /\ result' = [op |-> "analyze_aspects", value |-> analyze_aspects(text)]
  /\ UNCHANGED Inputs

Apply_detect_location ==
  /\ result = NoResult
  /\ result' = [op |-> "detect_location", value |-> detect_location(text)]
  /\ UNCHANGED Inputs

NextText ==
  \/ Apply_predict_category_fallback
  \/ Apply_analyze_aspects
  \/ Apply_detect_location

SpecText == InitText /\ [][NextText]_vars

(***************************************************************************)
(* The recommendation engine applied to one set of arguments.              *)
(*   category: a label of the fallback classifier, or a label only the     *)
(*     trained intent classifier can return ("Inquiry / Question" is a key *)
(*     of the rule table).                                                 *)
(*   aspects: a result of analyze_aspects, at most MaxAspects long.        *)
(*   location_data: a result of detect_location.                           *)
(*   bert_sentiment, vader_sentiment: results of the two sentiment         *)
(*     functions; confidence and compound score in ten-thousandths.        *)
(***************************************************************************)
FallbackLabels ==
  {"Complaint / Criticism", "Praise / Satisfaction", "Suggestion / Feature Request",
   "Purchase Intent / Inquiry", "Competitive Comparison", "General Feedback"}

CategoryLabels == FallbackLabels \cup {"Inquiry / Question"}

AspectNames == [i \in 1..Len(aspect_keywords) |-> aspect_keywords[i].aspect]

MaxAspects == 2

AspectLists ==
  {SelectSeq(AspectNames, LAMBDA a : a \in chosen) :
     chosen \in {c \in SUBSET {AspectNames[i] : i \in 1..Len(AspectNames)} :
                   Cardinality(c) <= MaxAspects}}

Sentiments == {"positive", "negative", "neutral"}

BertResults ==
  {[sentiment |-> s, confidence |-> 9876] : s \in Sentiments}

VaderResults ==
  {[sentiment |-> "positive", scores |-> [compound |-> 6249]],
   [sentiment |-> "negative", scores |-> [compound |-> -4767]],
   [sentiment |-> "neutral", scores |-> [compound |-> 0]]}

\* Comments whose locations cover: none; a metro city of region West; two cities
\* and a state of region North; a state alone, of region South; a state of no
\* region; a tier-2 city of no region; a metro city of region East; any other city.
LocationTexts ==
  {S(w) : w \in {"price", "Mumbai", "New Delhi", "Kerala", "Ladakh", "Lucknow",
                 "Kolkata", "Patna"}}

InitRecommend ==
  /\ hash_order = "declared"
  /\ location_data \in {detect_location(t) : t \in LocationTexts}
  /\ text = NoText
  /\ category \in CategoryLabels
  /\ aspects \in AspectLists
  /\ bert_sentiment \in BertResults
  /\ vader_sentiment \in VaderResults
  /\ result = NoResult
  /\ NoCaches
  /\ NoModels
  /\ NoRequest

Apply_generate_recommendation ==
  /\ result = NoResult
  /\ result' = [op |-> "generate_recommendation",
                value |-> generate_recommendation(category, aspects, bert_sentiment,
                                                  vader_sentiment)]
  /\ UNCHANGED Inputs

Apply_generate_recommendation_v2 ==
  /\ result = NoResult
  /\ result' = [op |-> "generate_recommendation_v2",
                value |-> generate_recommendation_v2(category, aspects, bert_sentiment,
                                                     vader_sentiment)]
  /\ UNCHANGED Inputs

Apply_generate_location_recommendation ==
  /\ result = NoResult
  /\ result' = [op |-> "generate_location_recommendation",
                value |-> generate_location_recommendation(
                            category, aspects, location_data, bert_sentiment,
                            vader_sentiment)]
  /\ UNCHANGED Inputs

Apply_strategic_recommendation ==
  /\ result = NoResult
  /\ result' = [op |-> "strategic_recommendation",
                value |-> strategic_recommendation(
                            category, aspects, location_data, bert_sentiment,
                            vader_sentiment)]
  /\ UNCHANGED Inputs

NextRecommend ==
  \/ Apply_generate_recommendation
  \/ Apply_generate_recommendation_v2
  \/ Apply_generate_location_recommendation
  \/ Apply_strategic_recommendation

SpecRecommend == InitRecommend /\ [][NextRecommend]_vars


(***************************************************************************)
(* The sentiment analysers.  A call of a library (the transformers         *)
(* pipeline held by bert_classifier, the VADER analyzer held by            *)
(* vader_analyzer) either raises, [raises |-> message], or returns,        *)
(* [returns |-> value].  A piece of Python code completes by returning a   *)
(* value or by raising an exception.  Probabilities and scores are         *)
(* integers in units of 10^-5; a number rounded to four places is an       *)
(* integer in units of 10^-4.                                              *)
(***************************************************************************)
\* The objects the initialisers return when they succeed.
SentimentPipeline == [model |-> "sentiment-analysis pipeline"]

Analyzer == [model |-> "SentimentIntensityAnalyzer"]

Return(value) == [raised |-> FALSE, value |-> value]

Raise(exception) == [raised |-> TRUE, exception |-> exception]

\* round(x, 4), for x that is not half-way between two multiples of 10^-4.
round4(x) == IF x >= 0 THEN (x + 5) \div 10 ELSE -((5 - x) \div 10)

\* The str with the given characters.
RECURSIVE Str(_)
Str(cs) == IF cs = <<>> THEN "" ELSE cs[1] \o Str(Tail(cs))

label_mapping ==
  [label \in {"POSITIVE", "NEGATIVE", "NEUTRAL", "LABEL_0", "LABEL_1", "LABEL_2"} |->
     CASE label = "POSITIVE" -> "positive"
       [] label = "NEGATIVE" -> "negative"
       [] label = "NEUTRAL" -> "neutral"
       [] label = "LABEL_0" -> "negative"
       [] label = "LABEL_1" -> "neutral"
       [] label = "LABEL_2" -> "positive"]

\* The try block of bert_sentiment_analysis; `call` is what bert_classifier(text) does.
bert_try(call) ==
  IF "raises" \in DOMAIN call THEN Raise(call.raises)
  ELSE IF call.returns = <<>> THEN Raise("list index out of range")
  ELSE
    LET output == call.returns[1] IN
    IF "label" \notin DOMAIN output THEN Raise("'label'")
    ELSE IF "score" \notin DOMAIN output THEN Raise("'score'")
    ELSE Return([sentiment  |-> Get(label_mapping, output.label,
                                    Str(lower(S(output.label)))),
                 confidence |-> round4(output.score),
                 raw_output |-> output])

\* A body whose model call and label mapping are outside any try block.
bert_sentiment_analysis_unprotected(t, call) ==
  IF bert_classifier = None
    THEN Return([sentiment |-> "neutral", confidence |-> 0,
                 error |-> "BERT model not available"])
  ELSE bert_try(call)

\* bert_sentiment_analysis (the decorated function's body).
bert_sentiment_analysis(t, call) ==
  IF bert_classifier = None
    THEN Return([sentiment |-> "neutral", confidence |-> 0,
                 error |-> "BERT model not available"])
  ELSE
    LET attempt == bert_try(call) IN
    IF attempt.raised
      THEN Return([sentiment |-> "neutral", confidence |-> 0,
                   error |-> attempt.exception])
    ELSE attempt

\* A labelling with strict comparisons.
compound_sentiment_strict(compound) ==
  IF compound > 5000 THEN "positive"
  ELSE IF compound < -5000 THEN "negative"
  ELSE "neutral"

\* The label for a compound score, given in units of 10^-5.
compound_sentiment(compound) ==
  IF compound >= 5000 THEN "positive"
  ELSE IF compound <= -5000 THEN "negative"
  ELSE "neutral"

\* The try block of vader_sentiment_analysis; `call` is what
\* vader_analyzer.polarity_scores(text) does.
vader_try(call) ==
  IF "raises" \in DOMAIN call THEN Raise(call.raises)
  ELSE
    LET scores == call.returns IN
    IF "compound" \notin DOMAIN scores THEN Raise("'compound'")
    ELSE IF {"pos", "neu", "neg"} \ DOMAIN scores # {} THEN Raise("'pos'")
    ELSE Return([sentiment |-> compound_sentiment(scores.compound),
                 scores |-> [positive |-> round4(scores.pos),
                             neutral  |-> round4(scores.neu),
                             negative |-> round4(scores.neg),
                             compound |-> round4(scores.compound)]])

vader_sentiment_analysis(t, call) ==
  IF vader_analyzer = None
    THEN Return([sentiment |-> "neutral", scores |-> <<>>,
                 error |-> "VADER analyzer not available"])
  ELSE
    LET attempt == vader_try(call) IN
    IF attempt.raised
      THEN Return([sentiment |-> "neutral", scores |-> <<>>,
                   error |-> attempt.exception])
    ELSE attempt

(***************************************************************************)
(* The sentiment analysers applied to one comment, with the model present  *)
(* or absent and the library call doing any of the things it can do.       *)
(***************************************************************************)
\* Labels of the two models initialize_bert_model names, of the mapping table, and
\* one label of neither.
ModelLabels ==
  {"positive", "negative", "neutral", "POSITIVE", "NEGATIVE", "NEUTRAL",
   "LABEL_0", "LABEL_1", "LABEL_2", "Mixed"}

ModelScores == {33334, 98761, 100000}

BertCalls ==
  {[returns |-> <<[label |-> l, score |-> s]>>] : l \in ModelLabels, s \in ModelScores}
  \cup {[raises |-> "CUDA out of memory"]}

\* polarity_scores returns compound rounded to four places, between -1 and 1.
VaderCalls ==
  {[returns |-> [pos |-> 25400, neu |-> 50000, neg |-> 24600, compound |-> 10 * c]] :
     c \in -10000..10000}
  \cup {[raises |-> "polarity_scores failed"]}

InitSentiment ==
  /\ hash_order = "declared"
  /\ text = S("Terrible service")
  /\ category = None
  /\ aspects = None
  /\ location_data = None
  /\ bert_sentiment = None
  /\ vader_sentiment = None
  /\ result = NoResult
  /\ NoCaches
  /\ NoRequest
  /\ intent_classifier = None
  /\ \/ /\ bert_classifier \in {None, SentimentPipeline}
        /\ bert_call \in BertCalls
        /\ vader_analyzer = None
        /\ vader_call = None
     \/ /\ vader_analyzer \in {None, Analyzer}
        /\ vader_call \in VaderCalls
        /\ bert_classifier = None
        /\ bert_call = None

\* What a completed call leaves in result.
Completed(op, completion) ==
  IF completion.raised
    THEN [op |-> op, raised |-> TRUE, exception |-> completion.exception]
  ELSE [op |-> op, raised |-> FALSE, value |-> completion.value]

Apply_bert_sentiment_analysis ==
  /\ result = NoResult
  /\ bert_call # None
  /\ result' = Completed("bert_sentiment_analysis", bert_sentiment_analysis(text, bert_call))
  /\ UNCHANGED Inputs

Apply_vader_sentiment_analysis ==
  /\ result = NoResult
  /\ vader_call # None
  /\ result' = Completed("vader_sentiment_analysis",
                         vader_sentiment_analysis(text, vader_call))
  /\ UNCHANGED Inputs

NextSentiment ==
  \/ Apply_bert_sentiment_analysis
  \/ Apply_vader_sentiment_analysis

SpecSentiment == InitSentiment /\ [][NextSentiment]_vars
(***************************************************************************)
(* Requests.  Each request passes its comment to bert_sentiment_analysis,  *)
(* to analyze_aspects and then to detect_location, as /analyze does; the   *)
(* process has no learned model.  The comments are those of a pool *)
(* of two-fragment texts, sent in pool order, and one three-fragment       *)
(* comment, Probe, that is sent again at any time: between two requests    *)
(* for Probe lie any number of other comments, fewer than the cache holds  *)
(* or enough to evict it.                                                  *)
(***************************************************************************)
MaxExtra == 2

PoolSize == maxsize + MaxExtra

PoolText(n) ==
  TextOf(<<((n - 1) \div Len(Vocabulary)) + 1, ((n - 1) % Len(Vocabulary)) + 1>>)

Probe == TextOf(<<9, 1, 8>>)

RequestTexts == {Probe} \cup {PoolText(n) : n \in 1..PoolSize}

\* What the wrapped functions compute for the comments of the client, tabulated.
AspectsComputed == [t \in RequestTexts |-> analyze_aspects(t)]

LocationComputed ==
  [order \in HashOrders |-> [t \in RequestTexts |-> detect_location_ordered(order, t)]]

InitCache ==
  /\ hash_order \in HashOrders
  /\ text = NoText
  /\ category = None
  /\ aspects = None
  /\ location_data = None
  /\ bert_sentiment = None
  /\ vader_sentiment = None
  /\ result = NoResult
  /\ NoCaches
  /\ NoModels
  /\ NoRequest

\* The result first returned for Probe by each function.
Remember(op, t, value) ==
  IF t = Probe /\ first_returned[op] = None
    THEN [first_returned EXCEPT ![op] = [value |-> value]]
  ELSE first_returned

\* What bert_sentiment_analysis computes in a process without the model.
BertComputed == bert_sentiment_analysis(NoText, None).value

\* A request with comment t arrives and t is passed to bert_sentiment_analysis.
Call_bert_sentiment_analysis(t, fresh) ==
  /\ pc = "idle"
  /\ LET call == lru_call(bert_cache, t, BertComputed) IN
     /\ bert_cache' = call.cache
     /\ result' = [op |-> "bert_sentiment_analysis", value |-> call.value,
                   hit |-> call.hit]
  /\ text' = t
  /\ next_fresh' = IF fresh THEN next_fresh + 1 ELSE next_fresh
  /\ last_probe' = IF t = Probe THEN next_fresh ELSE last_probe
  /\ pc' = "bert_done"
  /\ UNCHANGED <<hash_order, category, aspects, location_data, bert_sentiment,
                 vader_sentiment, aspects_cache, location_cache, first_returned,
                 model_vars, payload, calls, tables, threads, dashboard_vars>>

RequestFresh ==
  /\ next_fresh <= PoolSize
  /\ Call_bert_sentiment_analysis(PoolText(next_fresh), TRUE)

RequestProbe == Call_bert_sentiment_analysis(Probe, FALSE)

\* The comment is passed to analyze_aspects.
Call_analyze_aspects ==
  /\ pc = "bert_done"
  /\ LET call == lru_call(aspects_cache, text, AspectsComputed[text]) IN
     /\ aspects_cache' = call.cache
     /\ result' = [op |-> "analyze_aspects", value |-> call.value, hit |-> call.hit]
     /\ first_returned' = Remember("analyze_aspects", text, call.value)
  /\ pc' = "aspects_done"
  /\ UNCHANGED <<hash_order, text, category, aspects, location_data, bert_sentiment,
                 vader_sentiment, location_cache, next_fresh, model_vars, request_vars,
                 last_probe, tables, threads, dashboard_vars>>

\* The same comment is passed to detect_location.
Call_detect_location ==
  /\ pc = "aspects_done"
  /\ LET call == lru_call(location_cache, text, LocationComputed[hash_order][text]) IN
     /\ location_cache' = call.cache
     /\ result' = [op |-> "detect_location", value |-> call.value, hit |-> call.hit]
     /\ first_returned' = Remember("detect_location", text, call.value)
  /\ pc' = "idle"
  /\ UNCHANGED <<hash_order, text, category, aspects, location_data, bert_sentiment,
                 vader_sentiment, aspects_cache, next_fresh, model_vars, request_vars, last_probe, tables,
                 threads, dashboard_vars>>

NextCache ==
  \/ RequestFresh
  \/ RequestProbe
  \/ Call_analyze_aspects
  \/ Call_detect_location

SpecCache == InitCache /\ [][NextCache]_vars


(***************************************************************************)
(* The recommendation engine applied to what the detectors can hand it:    *)
(* a category the rule table does not know, the results the sentiment      *)
(* analysers return when they fail, a label outside the three sentiments.  *)
(***************************************************************************)
\* The categories of the rule table and of the fallback, and one the intent model
\* may have learned from its dataset that neither knows.
EngineCategories == CategoryLabels \cup {"Spam"}

EngineBertCalls ==
  {[returns |-> <<[label |-> "NEGATIVE", score |-> 98761]>>],
   [returns |-> <<[label |-> "Mixed", score |-> 98761]>>],
   [raises |-> "CUDA out of memory"]}

EngineVaderCalls ==
  {[returns |-> [pos |-> 0, neu |-> 25400, neg |-> 74600, compound |-> -47670]],
   [returns |-> [pos |-> 50800, neu |-> 49200, neg |-> 0, compound |-> 62490]]}

EngineLocationTexts == {S(w) : w \in {"price", "Mumbai", "Ladakh"}}

\* The sentiment results are those the analysers return for these calls; with the
\* model absent no call is made, and one call stands for all.
InitEngine ==
  /\ hash_order = "declared"
  /\ location_data \in {detect_location(t) : t \in EngineLocationTexts}
  /\ text = NoText
  /\ category \in EngineCategories
  /\ aspects \in AspectLists
  /\ intent_classifier = None
  /\ bert_classifier \in {None, SentimentPipeline}
  /\ bert_call \in EngineBertCalls
  /\ bert_classifier = None => bert_call = [raises |-> "CUDA out of memory"]
  /\ bert_sentiment = bert_sentiment_analysis(text, bert_call).value
  /\ vader_analyzer \in {None, Analyzer}
  /\ vader_call \in EngineVaderCalls
  /\ vader_analyzer = None =>
       vader_call.returns.compound < 0
  /\ vader_sentiment = vader_sentiment_analysis(text, vader_call).value
  /\ result = NoResult
  /\ NoCaches
  /\ NoRequest

SpecEngine == InitEngine /\ [][NextRecommend]_vars

(***************************************************************************)
(* Startup (the __main__ block) and the /analyze handler.                  *)
(*                                                                         *)
(* A request moves through analyze_comment in steps: it is received, its   *)
(* payload is validated, bert_sentiment_analysis is called and, unless the *)
(* cache or the missing model answers at once, the handler waits inside    *)
(* bert_classifier(text) until the library returns or raises; the rest of  *)
(* the handler (VADER, aspects, location, category, recommendation, the    *)
(* response) runs without waiting for anything.  pc is the position of the *)
(* request in progress.                                                    *)
(***************************************************************************)
IntentPipeline == [model |-> "intent_pipeline"]

\* load_dataset; `file` is synthetic_tata_motors_data.csv as found on disk: absent,
\* or a table with its columns, its number of rows having text and category, and
\* the number of categories among them.
load_dataset(file) ==
  IF ~file.exists
    THEN Return([columns |-> {"id", "text", "category"}, rows |-> 6, classes |-> 3])
  ELSE IF ~({"text", "category"} \subseteq file.columns)
    THEN Raise("KeyError")
  ELSE Return([columns |-> file.columns, rows |-> file.rows, classes |-> file.classes])

\* train_intent_classifier; LogisticRegression.fit raises on fewer than two classes.
train_intent_classifier(df) ==
  IF "text" \notin df.columns \/ "category" \notin df.columns THEN None
  ELSE IF df.rows = 0 THEN None
  ELSE IF df.classes < 2 THEN None
  ELSE IntentPipeline

DatasetFiles ==
  {[exists |-> FALSE],
   [exists |-> TRUE, columns |-> {"id", "text", "category"}, rows |-> 500, classes |-> 6],
   [exists |-> TRUE, columns |-> {"id", "text", "category"}, rows |-> 0, classes |-> 0],
   [exists |-> TRUE, columns |-> {"id", "text", "category"}, rows |-> 40, classes |-> 1],
   [exists |-> TRUE, columns |-> {"id", "comment"}, rows |-> 0, classes |-> 0]}

\* The intent models a started server can hold: load_dataset returned and
\* train_intent_classifier was applied to the dataset.
StartedIntentClassifiers ==
  {train_intent_classifier(load_dataset(f).value) :
     f \in {f \in DatasetFiles : ~load_dataset(f).raised}}

Whitespace == {" ", "\t", "\n", "\r"}

\* str.strip()
strip(s) ==
  LET kept == {i \in 1..Len(s) : s[i] \notin Whitespace} IN
  IF kept = {} THEN <<>>
  ELSE SubSeq(s, CHOOSE i \in kept : \A j \in kept : i <= j,
                 CHOOSE i \in kept : \A j \in kept : i >= j)

\* Request bodies: no JSON object, an object without "text", and objects whose
\* text is empty, blank, or a comment with or without surrounding blanks.
Payloads ==
  {None, [comment |-> S("Terrible service")]}
  \cup {[text |-> t] : t \in {S(""), S("   "), S(" \t\n"), S(" Mumbai price "),
                              S("Mumbai price"), S("Terrible service")}}

BadRequest(message) == [rejected |-> TRUE, status |-> 400, error |-> message]

\* A validation that looks at the text as sent and strips it afterwards.
validate_unstripped(data) ==
  IF data = None \/ "text" \notin DOMAIN data
    THEN BadRequest("Missing required field: text")
  ELSE IF data.text = <<>>
    THEN BadRequest("Text cannot be empty")
  ELSE [rejected |-> FALSE, comment_text |-> strip(data.text)]

\* "Validate input": the 400 response, or the stripped comment.
validate(data) ==
  IF data = None \/ "text" \notin DOMAIN data
    THEN BadRequest("Missing required field: text")
  ELSE IF strip(data.text) = <<>>
    THEN BadRequest("Text cannot be empty")
  ELSE [rejected |-> FALSE, comment_text |-> strip(data.text)]

\* A category step that always asks the trained model.
predict_category_model_only(comment_text, predicted) ==
  IF intent_classifier = None
    THEN Raise("'NoneType' object has no attribute 'predict'")
  ELSE IF "raises" \in DOMAIN predicted THEN Raise(predicted.raises)
  ELSE Return(predicted.returns[1])

\* "Use the trained model for prediction", else the keyword fallback;
\* `predicted` is what intent_classifier.predict([comment_text]) does.
predict_category(comment_text, predicted) ==
  IF intent_classifier # None
    THEN (IF "raises" \in DOMAIN predicted THEN Raise(predicted.raises)
          ELSE Return(predicted.returns[1]))
  ELSE Return(predict_category_fallback(comment_text))

(***************************************************************************)
(* The process-wide objects and the dicts the handler writes into.  The    *)
(* rule table, the default recommendation, the gazetteers and the regional *)
(* mapping are module-level objects; a function that returns one of them   *)
(* returns the object itself, not a copy, and an item assignment changes   *)
(* the object it is applied to.                                            *)
(***************************************************************************)
StaticTables ==
  [RECOMMENDATION_RULES   |-> RECOMMENDATION_RULES,
   DEFAULT_RECOMMENDATION |-> DEFAULT_RECOMMENDATION,
   INDIAN_CITIES          |-> INDIAN_CITIES,
   INDIAN_STATES          |-> INDIAN_STATES,
   REGIONAL_MAPPING       |-> REGIONAL_MAPPING]

\* A dict created by the call: a dict display or dict.copy().
NewDict == [object |-> "new dict"]

\* The object generate_recommendation_v2 returns: an entry of the rule table or
\* the default recommendation.
generate_recommendation_v2_object(cat, asp) ==
  LET hits == SelectSeq(asp, LAMBDA aspect : <<cat, aspect>> \in DOMAIN RECOMMENDATION_RULES)
  IN  IF hits # <<>> THEN [object |-> "RECOMMENDATION_RULES", key |-> <<cat, hits[1]>>]
      ELSE [object |-> "DEFAULT_RECOMMENDATION"]

\* An augmentation applied to the object the rule lookup returns.
enhanced_recommendation_object_of_rule(cat, asp) ==
  generate_recommendation_v2_object(cat, asp)

\* The object generate_location_recommendation assigns into:
\* base_recommendation.copy(), base_recommendation being the dict display that
\* generate_recommendation returns.
enhanced_recommendation_object(cat, asp) == NewDict

\* d[k] = items[k] for every key k of items.
StoreItems(d, items) ==
  [k \in DOMAIN d \cup DOMAIN items |-> IF k \in DOMAIN items THEN items[k] ELSE d[k]]

\* The process-wide objects after the item assignments on `target`.
TablesAfter(tbls, target, items) ==
  IF target.object = "RECOMMENDATION_RULES"
    THEN [tbls EXCEPT !.RECOMMENDATION_RULES[target.key] = StoreItems(@, items)]
  ELSE IF target.object = "DEFAULT_RECOMMENDATION"
    THEN [tbls EXCEPT !.DEFAULT_RECOMMENDATION = StoreItems(@, items)]
  ELSE tbls

\* The three item assignments of generate_location_recommendation, taken from
\* the recommendation it returns.
AugmentationItems(recommendation) ==
  [k \in {"insight", "action", "location_context"} |-> recommendation[k]]

RequestBertCalls ==
  {[returns |-> <<[label |-> "NEGATIVE", score |-> 98761]>>],
   [raises |-> "CUDA out of memory"]}

RequestVaderCalls ==
  {[returns |-> [pos |-> 0, neu |-> 25400, neg |-> 74600, compound |-> -47670]],
   [raises |-> "polarity_scores failed"]}

\* intent_classifier.predict([comment_text])
PredictCalls == {[returns |-> <<"Praise / Satisfaction">>], [raises |-> "predict failed"]}

InitRequest ==
  /\ hash_order = "declared"
  /\ text = NoText
  /\ category = None
  /\ aspects = None
  /\ location_data = None
  /\ bert_sentiment = None
  /\ vader_sentiment = None
  /\ result = NoResult
  /\ NoCaches
  /\ payload = None
  /\ bert_cache = <<>>
  /\ calls = [functions |-> {}, caches |-> <<<<>>, <<>>, <<>>>>]
  /\ last_probe = 0
  /\ tables = StaticTables
  /\ threads = <<>>
  /\ use_fallback = FALSE
  /\ backend_call = None
  /\ bert_classifier \in {None, SentimentPipeline}
  /\ vader_analyzer \in {None, Analyzer}
  /\ intent_classifier \in StartedIntentClassifiers
  /\ bert_call = None
  /\ vader_call = None

Globals == <<hash_order, bert_classifier, vader_analyzer, intent_classifier, bert_call,
             vader_call, next_fresh, first_returned, last_probe, threads,
             dashboard_vars>>

Locals == <<text, category, aspects, location_data, bert_sentiment, vader_sentiment>>

Caches == <<bert_cache, aspects_cache, location_cache>>

NoLocals ==
  /\ text' = NoText
  /\ category' = None
  /\ aspects' = None
  /\ location_data' = None
  /\ bert_sentiment' = None
  /\ vader_sentiment' = None

Called(name) == [calls EXCEPT !.functions = @ \cup {name}]

\* A request arrives: data = request.get_json().
Receive ==
  /\ pc = "idle"
  /\ \E data \in Payloads : payload' = data
  /\ calls' = [functions |-> {}, caches |-> Caches]
  /\ pc' = "validating"
  /\ UNCHANGED <<result, Globals, tables, Locals, Caches>>

\* The two checks on the payload.
Validate ==
  /\ pc = "validating"
  /\ LET checked == validate(payload) IN
     IF checked.rejected
       THEN /\ result' = [op |-> "analyze_comment", status |-> checked.status,
                          body |-> [error |-> checked.error]]
            /\ pc' = "idle"
            /\ UNCHANGED text
       ELSE /\ text' = checked.comment_text
            /\ pc' = "bert"
            /\ UNCHANGED result
  /\ UNCHANGED <<payload, calls, Globals, tables, Caches, category, aspects, location_data,
                 bert_sentiment, vader_sentiment>>

\* bert_sentiment_analysis(comment_text) up to the library call: the cache
\* answers, or the model is absent, or bert_classifier(text) is entered.
BertLookup ==
  /\ pc = "bert"
  /\ IF lru_find(bert_cache, text) # 0 \/ bert_classifier = None
       THEN LET call == lru_call(bert_cache, text,
                                 bert_sentiment_analysis(text, None).value) IN
            /\ bert_cache' = call.cache
            /\ bert_sentiment' = call.value
            /\ calls' = Called("bert_sentiment_analysis")
            /\ pc' = "vader"
       ELSE /\ calls' = [calls EXCEPT !.functions =
                          @ \cup {"bert_sentiment_analysis", "bert_classifier"}]
            /\ pc' = "bert_waiting"
            /\ UNCHANGED <<bert_cache, bert_sentiment>>
  /\ UNCHANGED <<payload, result, Globals, tables, text, category, aspects,
                 location_data,
                 vader_sentiment, aspects_cache, location_cache>>

\* bert_classifier(text) returns or raises.
BertReturns ==
  /\ pc = "bert_waiting"
  /\ \E done \in RequestBertCalls :
       LET call == lru_call(bert_cache, text, bert_sentiment_analysis(text, done).value) IN
       /\ bert_cache' = call.cache
       /\ bert_sentiment' = call.value
  /\ pc' = "vader"
  /\ UNCHANGED <<payload, result, calls, Globals, tables, text, category, aspects,
                 location_data,
                 vader_sentiment, aspects_cache, location_cache>>

\* The handler from vader_sentiment_analysis to the response.
Finish ==
  /\ pc = "vader"
  /\ \E scored \in RequestVaderCalls, predicted \in PredictCalls :
       LET vader_analysis == vader_sentiment_analysis(text, scored).value
           tagged == lru_call(aspects_cache, text, analyze_aspects(text))
           located == lru_call(location_cache, text, detect_location(text))
           predicted_category == predict_category(text, predicted)
           recommendation ==
             strategic_recommendation(predicted_category.value, tagged.value,
                                      located.value, bert_sentiment, vader_analysis)
       IN
       /\ aspects_cache' = tagged.cache
       /\ location_cache' = located.cache
       /\ IF predicted_category.raised
            THEN /\ result' = [op |-> "analyze_comment", status |-> 500,
                               body |-> [error |-> predicted_category.exception]]
                 /\ UNCHANGED tables
                 /\ calls' = [calls EXCEPT !.functions = @ \cup
                                {"vader_sentiment_analysis", "analyze_aspects",
                                 "detect_location", "intent_classifier.predict"}]
            ELSE /\ result' =
                      [op |-> "analyze_comment", status |-> 200,
                       body |->
                         [input_text |-> text,
                          predicted_category |-> predicted_category.value,
                          identified_aspects |-> tagged.value,
                          location_analysis |-> located.value,
                          sentiment_analysis |->
                            [bert |-> bert_sentiment, vader |-> vader_analysis],
                          strategic_recommendation |-> recommendation]]
                 /\ tables' =
                      IF located.value.has_location
                        THEN TablesAfter(
                               tables,
                               enhanced_recommendation_object(predicted_category.value,
                                                              tagged.value),
                               AugmentationItems(recommendation))
                      ELSE tables
                 /\ calls' = [calls EXCEPT !.functions = @ \cup
                                {"vader_sentiment_analysis", "analyze_aspects",
                                 "detect_location",
                                 IF intent_classifier # None
                                   THEN "intent_classifier.predict"
                                 ELSE "predict_category_fallback"}]
  /\ NoLocals
  /\ pc' = "idle"
  /\ UNCHANGED <<payload, Globals, bert_cache>>

NextRequest ==
  \/ Receive
  \/ Validate
  \/ BertLookup
  \/ BertReturns
  \/ Finish

SpecRequest == InitRequest /\ [][NextRequest]_vars


(***************************************************************************)
(* The dashboard's brand identification (streamlit_dashboard.py).          *)
(* A returned label is the record [brand |-> label]; a call that falls off *)
(* the end of the function returns None.                                   *)
(***************************************************************************)
competitor_keywords ==
  <<[brand |-> "Mahindra",
     keywords |-> <<"mahindra", "xuv700", "xuv300", "scorpio", "thar", "bolero">>],
    [brand |-> "Hyundai/Kia",
     keywords |-> <<"hyundai", "kia", "creta", "seltos", "venue", "sonet", "alcazar",
                    "i20", "verna">>],
    [brand |-> "Maruti Suzuki",
     keywords |-> <<"maruti", "suzuki", "brezza", "vitara", "fronx", "swift", "baleno",
                    "wagon r">>]>>

tata_keywords ==
  <<"tata", "nexon", "harrier", "safari", "punch", "altroz", "tigor", "tiago">>

identify_brand_fallback(t) ==
  LET text_lower == lower(t) IN
  IF \E i \in 1..Len(competitor_keywords) :
       AnyKeyword(competitor_keywords[i].keywords, text_lower)
    THEN [brand |-> "Competitor"]
  ELSE IF AnyKeyword(tata_keywords, text_lower) THEN [brand |-> "Tata Motors"]
  ELSE [brand |-> "Unspecified"]

\* The except branch, and the branch for a response without brand_analysis.
LocalAnalysis(t, fallback) ==
  IF fallback THEN identify_brand_fallback(t) ELSE [brand |-> "Unspecified"]

\* identify_brand_with_backend; `call` is what requests.post(...) does: it raises,
\* or returns a response with a status code and, when the body is JSON, its value.
identify_brand_with_backend(t, fallback, call) ==
  IF "raises" \in DOMAIN call THEN LocalAnalysis(t, fallback)
  ELSE
    LET response == call.returns IN
    IF response.status_code = 200 THEN
      IF "json" \notin DOMAIN response THEN LocalAnalysis(t, fallback)
      ELSE IF "brand_analysis" \in DOMAIN response.json THEN
        [brand |-> Get(response.json.brand_analysis, "primary_brand", "Unspecified")]
      ELSE LocalAnalysis(t, fallback)
    ELSE None

\* What the POST to {API_BASE_URL}/analyze does: the connection fails or times
\* out; a backend answers 200 with a brand analysis, with one lacking
\* primary_brand, or, as app.py does, without any; it answers 200 with a body
\* that is not JSON; it answers 400 (app.py, empty text), 500 (app.py, error).
BackendCalls ==
  {[raises |-> "ConnectionError"],
   [raises |-> "ReadTimeout"],
   [returns |-> [status_code |-> 200,
                 json |-> [brand_analysis |-> [primary_brand |-> "Mahindra"]]]],
   [returns |-> [status_code |-> 200,
                 json |-> [brand_analysis |-> [is_competitive_mention |-> FALSE]]]],
   [returns |-> [status_code |-> 200, json |-> [predicted_category |-> "General Feedback"]]],
   [returns |-> [status_code |-> 200]],
   [returns |-> [status_code |-> 400, json |-> [error |-> "Text cannot be empty"]]],
   [returns |-> [status_code |-> 500, json |-> [error |-> "An error occurred"]]]}

DashboardTexts ==
  {S(w) : w \in {"Creta vs Nexon", "love my Nexon EV", "price", "MARUTI Swift",
                 "Terrible service", "Thar or Harrier", " "}}

InitDashboard ==
  /\ hash_order = "declared"
  /\ text \in DashboardTexts
  /\ category = None
  /\ aspects = None
  /\ location_data = None
  /\ bert_sentiment = None
  /\ vader_sentiment = None
  /\ result = NoResult
  /\ NoCaches
  /\ NoModels
  /\ payload = None
  /\ bert_cache = <<>>
  /\ calls = [functions |-> {}, caches |-> <<>>]
  /\ last_probe = 0
  /\ tables = None
  /\ threads = <<>>
  /\ use_fallback \in BOOLEAN
  /\ backend_call \in BackendCalls

Apply_identify_brand_fallback ==
  /\ result = NoResult
  /\ result' = [op |-> "identify_brand_fallback", value |-> identify_brand_fallback(text)]
  /\ UNCHANGED Inputs

Apply_identify_brand_with_backend ==
  /\ result = NoResult
  /\ result' = [op |-> "identify_brand_with_backend",
                value |-> identify_brand_with_backend(text, use_fallback, backend_call)]
  /\ UNCHANGED Inputs

NextDashboard ==
  \/ Apply_identify_brand_fallback
  \/ Apply_identify_brand_with_backend

SpecDashboard == InitDashboard /\ [][NextDashboard]_vars

(***************************************************************************)
(* Concurrent requests.  app.run serves each request in a thread of its    *)
(* own (the development server is threaded); the threads share the three   *)
(* lru_cache objects and the models, and each has the local variables of   *)
(* its analyze_comment call.  A call through an lru_cache wrapper is two   *)
(* steps when the key is absent: the lookup, and, after the function has   *)
(* run without the cache being held, the insertion, which is skipped when  *)
(* another thread has stored the key meanwhile.  The models are            *)
(* deterministic: what a library call does depends on the text alone.      *)
(* `text` is the comment received last, by either thread.                  *)
(***************************************************************************)
Threads == {1, 2}

ConcurrentTexts == {S(" Mumbai price "), S("Terrible service")}

\* A signed-off choice of what each library call does for a comment.
DeterministicBert(t) ==
  IF Contains(t, S("Terrible")) THEN [returns |-> <<[label |-> "NEGATIVE", score |-> 98761]>>]
  ELSE [raises |-> "CUDA out of memory"]

DeterministicVader(t) ==
  IF Contains(t, S("Terrible"))
    THEN [returns |-> [pos |-> 0, neu |-> 25400, neg |-> 74600, compound |-> -47670]]
  ELSE [returns |-> [pos |-> 0, neu |-> 100000, neg |-> 0, compound |-> 0]]

DeterministicPredict(t) ==
  IF Contains(t, S("Terrible")) THEN [returns |-> <<"Complaint / Criticism">>]
  ELSE [returns |-> <<"Suggestion / Feature Request">>]

\* What the function wrapped by each cache returns for a comment.
Wrapped(function, t) ==
  IF function = "bert" THEN bert_sentiment_analysis(t, DeterministicBert(t)).value
  ELSE IF function = "aspects" THEN analyze_aspects(t)
  ELSE detect_location(t)

\* The response of analyze_comment from the values of its local variables.
Response(comment, bert_analysis, vader_analysis, identified_aspects, location, predicted_category) ==
  [input_text |-> comment,
   predicted_category |-> predicted_category,
   identified_aspects |-> identified_aspects,
   location_analysis |-> location,
   sentiment_analysis |-> [bert |-> bert_analysis, vader |-> vader_analysis],
   strategic_recommendation |->
     strategic_recommendation(predicted_category, identified_aspects, location,
                              bert_analysis, vader_analysis)]

NoThread ==
  [pc |-> "idle", sent |-> NoText, comment_text |-> NoText, bert |-> None,
   aspects |-> None, location |-> None, response |-> None]

InitConcurrent ==
  /\ hash_order \in HashOrders
  /\ text = NoText
  /\ category = None
  /\ aspects = None
  /\ location_data = None
  /\ bert_sentiment = None
  /\ vader_sentiment = None
  /\ result = NoResult
  /\ NoCaches
  /\ payload = None
  /\ bert_cache = <<>>
  /\ calls = [functions |-> {}, caches |-> <<>>]
  /\ last_probe = 0
  /\ tables = StaticTables
  /\ threads = [tid \in Threads |-> NoThread]
  /\ use_fallback = FALSE
  /\ backend_call = None
  /\ bert_classifier = SentimentPipeline
  /\ vader_analyzer = Analyzer
  /\ intent_classifier \in {None, IntentPipeline}
  /\ bert_call = None
  /\ vader_call = None

ConcurrentFrame ==
  <<hash_order, category, aspects, location_data, bert_sentiment, vader_sentiment,
    result, next_fresh, pc, first_returned, model_vars, payload, calls, last_probe,
    tables, dashboard_vars>>

\* A handler that keeps the comment in a module-level variable.
comment_text_module_level(tid) == text

\* The local variable comment_text of the thread.
comment_text(tid) == threads[tid].comment_text

CacheOf(function) ==
  IF function = "bert" THEN bert_cache
  ELSE IF function = "aspects" THEN aspects_cache
  ELSE location_cache

\* The cache of `function` becomes `cache`, the others stay.
CachesBecome(function, cache) ==
  /\ bert_cache' = IF function = "bert" THEN cache ELSE bert_cache
  /\ aspects_cache' = IF function = "aspects" THEN cache ELSE aspects_cache
  /\ location_cache' = IF function = "location" THEN cache ELSE location_cache

\* The stage of the handler that follows the call of `function`.
StageAfter(function) ==
  IF function = "bert" THEN "aspects"
  ELSE IF function = "aspects" THEN "location"
  ELSE "respond"

\* A thread receives a request with a non-empty comment.
ThreadReceive(tid) ==
  /\ threads[tid].pc = "idle"
  /\ \E sent \in ConcurrentTexts :
       /\ threads' = [threads EXCEPT ![tid] =
                        [NoThread EXCEPT !.pc = "bert", !.sent = sent,
                                         !.comment_text = strip(sent)]]
       /\ text' = strip(sent)
  /\ UNCHANGED <<ConcurrentFrame, Caches>>

\* The wrapper of a memoised function looks the comment up.
ThreadLookup(tid) ==
  /\ threads[tid].pc \in {"bert", "aspects", "location"}
  /\ LET function == threads[tid].pc
         key == comment_text(tid)
         at == lru_find(CacheOf(function), key)
     IN  IF at # 0
           THEN LET call == lru_call(CacheOf(function), key, None) IN
                /\ CachesBecome(function, call.cache)
                /\ threads' = [threads EXCEPT ![tid][function] = call.value,
                                              ![tid].pc = StageAfter(function)]
         ELSE /\ threads' = [threads EXCEPT ![tid].pc = function \o "_miss"]
              /\ UNCHANGED Caches
  /\ UNCHANGED <<ConcurrentFrame, text>>

\* The function has run for the comment; its result is stored unless another
\* thread stored one for the same comment meanwhile.
ThreadStore(tid) ==
  /\ threads[tid].pc \in {"bert_miss", "aspects_miss", "location_miss"}
  /\ LET function == CHOOSE f \in {"bert", "aspects", "location"} :
                       threads[tid].pc = f \o "_miss"
         key == comment_text(tid)
         computed == Wrapped(function, key)
     IN  /\ IF lru_find(CacheOf(function), key) # 0
              THEN UNCHANGED Caches
            ELSE CachesBecome(function, lru_call(CacheOf(function), key, computed).cache)
         /\ threads' = [threads EXCEPT ![tid][function] = computed,
                                       ![tid].pc = StageAfter(function)]
  /\ UNCHANGED <<ConcurrentFrame, text>>

\* VADER, the category, the recommendation and the response.
ThreadRespond(tid) ==
  /\ threads[tid].pc = "respond"
  /\ LET comment == comment_text(tid)
         vader_analysis == vader_sentiment_analysis(comment, DeterministicVader(comment)).value
         predicted_category == predict_category(comment, DeterministicPredict(comment)).value
     IN  threads' = [threads EXCEPT
                       ![tid].pc = "idle",
                       ![tid].response =
                         Response(comment, threads[tid].bert, vader_analysis,
                                  threads[tid].aspects, threads[tid].location,
                                  predicted_category)]
  /\ UNCHANGED <<ConcurrentFrame, Caches, text>>

NextConcurrent ==
  \E tid \in Threads :
    \/ ThreadReceive(tid)
    \/ ThreadLookup(tid)
    \/ ThreadStore(tid)
    \/ ThreadRespond(tid)

SpecConcurrent == InitConcurrent /\ [][NextConcurrent]_vars
(***************************************************************************)
(* Properties of the recommendation engine (SpecRecommend)                 *)
(***************************************************************************)
Applied(op) == result.op = op

NoLocation == [cities |-> <<>>, states |-> <<>>, regions |-> <<>>, has_location |-> FALSE]

HasRule(cat, aspect) == <<cat, aspect>> \in DOMAIN RECOMMENDATION_RULES

\* a is the first aspect of the list, at position i, with a rule for the category.
FirstRuleAt(cat, asp, i) ==
  /\ i \in 1..Len(asp)
  /\ HasRule(cat, asp[i])
  /\ \A j \in 1..(i - 1) : ~HasRule(cat, asp[j])

SameAdvice(r, rule) ==
  /\ r.insight = rule.insight
  /\ r.strategy = rule.strategy
  /\ r.action = rule.action
  /\ r.priority = rule.priority

\* C1: for a comment with no detected location, when a is the first aspect of the
\* list with (category, a) in the rule table, /analyze returns exactly that rule's
\* insight, strategy, action and priority, whatever the two sentiments are.
C1_FirstRuleWins ==
  (Applied("strategic_recommendation") /\ ~location_data.has_location) =>
    \A i \in 1..Len(aspects) :
      FirstRuleAt(category, aspects, i) =>
        SameAdvice(result.value, RECOMMENDATION_RULES[<<category, aspects[i]>>])

\* Two aspects of the list have a rule for the category and the first one is returned.
C1_Witness ==
  /\ Applied("strategic_recommendation")
  /\ ~location_data.has_location
  /\ category = "Complaint / Criticism"
  /\ aspects = <<"Service", "Price">>
  /\ bert_sentiment.sentiment = "positive"
  /\ vader_sentiment.sentiment = "negative"
  /\ result.value.strategy = "Service Excellence Initiative"
  /\ "sentiment_consensus" \notin DOMAIN result.value

\* C2: the recommendation /analyze produces when a location is detected has the
\* strategy and the priority of the recommendation it produces for the same
\* category, aspects and sentiments when no location is detected.
C2_AugmentationKeepsBase ==
  (Applied("strategic_recommendation") /\ location_data.has_location) =>
    LET plain == strategic_recommendation(category, aspects, NoLocation,
                                          bert_sentiment, vader_sentiment)
    IN  /\ result.value.strategy = plain.strategy
        /\ result.value.priority = plain.priority

\* C3: with has_location = false the recommendation has no location_context key
\* and its insight and action are those of the base recommendation, nothing
\* prepended and nothing appended.
C3_NoLocationUnmodified ==
  /\ (Applied("generate_location_recommendation") /\ ~location_data.has_location) =>
       LET base == generate_recommendation(category, aspects, bert_sentiment,
                                           vader_sentiment)
       IN  /\ "location_context" \notin DOMAIN result.value
           /\ result.value.insight = base.insight
           /\ result.value.action = base.action
           /\ result.value = base
  /\ (Applied("strategic_recommendation") /\ ~location_data.has_location) =>
       LET by_rule == generate_recommendation_v2(category, aspects, bert_sentiment,
                                                 vader_sentiment)
           by_tree == generate_recommendation(category, aspects, bert_sentiment,
                                              vader_sentiment)
       IN  /\ "location_context" \notin DOMAIN result.value
           /\ result.value \in {by_rule, by_tree}

C3_Witness ==
  /\ Applied("generate_location_recommendation")
  /\ ~location_data.has_location
  /\ category = "Praise / Satisfaction"
  /\ aspects = <<"Features">>
  /\ result.value.strategy = "Feature Leadership Amplification"
  /\ DOMAIN result.value =
       {"insight", "strategy", "action", "priority", "sentiment_consensus"}

\* The action of an augmented recommendation: the base action, a space, and the
\* location clauses joined by spaces.
ActionIsBasePlus(clauses) ==
  LET base == generate_recommendation(category, aspects, bert_sentiment, vader_sentiment)
  IN  result.value.action = base.action \o S(" ") \o join(S(" "), clauses)

AppendedClauses == LocationActions(location_data.cities, location_data.regions)

\* C4: whenever has_location is true, generate_location_recommendation appends at
\* least 1 and at most 3 location-specific action clauses to the base action.
C4_OneToThreeClauses ==
  (Applied("generate_location_recommendation") /\ location_data.has_location) =>
    /\ ActionIsBasePlus(AppendedClauses)
    /\ Len(AppendedClauses) >= 1
    /\ Len(AppendedClauses) <= 3

\* C4, amended: the number of appended clauses is two when a city is detected
\* (none otherwise), plus one when a region is detected and one more when the
\* primary region is South, West or North: between 0 and 4 in all.
C4_ClauseCount ==
  (Applied("generate_location_recommendation") /\ location_data.has_location) =>
    LET cities == location_data.cities
        regions == location_data.regions
        forCity == IF cities # <<>> THEN 2 ELSE 0
        forRegion == IF regions = <<>> THEN 0
                     ELSE IF regions[1] \in {"South", "West", "North"} THEN 2
                     ELSE 1
    IN  /\ ActionIsBasePlus(AppendedClauses)
        /\ Len(AppendedClauses) = forCity + forRegion
        /\ Len(AppendedClauses) \in 0..4

\* A metro city of region West gets four clauses.
C4_Witness ==
  /\ Applied("generate_location_recommendation")
  /\ location_data.has_location
  /\ location_data.cities = <<"Mumbai">>
  /\ location_data.regions = <<"West">>
  /\ Len(AppendedClauses) = 4
  /\ ActionIsBasePlus(AppendedClauses)

IsSuffix(suffix, s) ==
  /\ Len(suffix) <= Len(s)
  /\ SubSeq(s, Len(s) - Len(suffix) + 1, Len(s)) = suffix

\* C5: whenever has_location is true (cities detected, or only states detected)
\* the augmented insight is a non-empty market-context clause followed by the
\* base recommendation's insight text, unchanged.
C5_ContextThenBaseInsight ==
  (Applied("generate_location_recommendation") /\ location_data.has_location) =>
    LET base == generate_recommendation(category, aspects, bert_sentiment,
                                        vader_sentiment)
    IN  /\ Len(result.value.insight) > Len(base.insight)
        /\ IsSuffix(base.insight, result.value.insight)

\* C6: for a non-complaint category the decision tree returns priority High only
\* if both the learned and the lexicon sentiment are negative.
C6_HighNeedsConsensus ==
  (/\ Applied("generate_recommendation")
   /\ category # "Complaint / Criticism"
   /\ result.value.priority = "High") =>
    /\ bert_sentiment.sentiment = "negative"
    /\ vader_sentiment.sentiment = "negative"

\* The decision tree returns from one of its branches (it "matches").
TreeMatches ==
  LET bert_sent == bert_sentiment.sentiment
      has(a) == \E i \in 1..Len(aspects) : aspects[i] = a
  IN  IF category = "Complaint / Criticism" \/ bert_sent = "negative"
        THEN has("Service") \/ has("EV") \/ has("Build Quality")
      ELSE IF category = "Praise / Satisfaction" \/ bert_sent = "positive"
        THEN has("Features") \/ has("Service")
      ELSE IF category = "Suggestion / Feature Request" THEN has("Features")
      ELSE category \in {"Purchase Intent / Inquiry", "Competitive Comparison"}

NoRuleMatches == \A i \in 1..Len(aspects) : ~HasRule(category, aspects[i])

Baseline ==
  IF \/ category = "Complaint / Criticism"
     \/ (bert_sentiment.sentiment = "negative" /\ vader_sentiment.sentiment = "negative")
    THEN "High"
  ELSE IF category = "Suggestion / Feature Request" THEN "Medium"
  ELSE "Low"

IsGenericDefault(r) ==
  /\ r.strategy = "Customer Relationship Management"
  /\ r.insight = S("General customer feedback received requiring attention and follow-up.")
  /\ r.action =
       S("Follow up with customer to gather more specific feedback and ensure satisfaction.")

\* C7: when neither the rule table nor the decision tree matches, the result is the
\* generic default recommendation and its priority is the baseline: High for a
\* complaint or two negative sentiments, Medium for a suggestion, otherwise Low.
C7_DefaultHasBaseline ==
  /\ (Applied("generate_recommendation") /\ ~TreeMatches) =>
       (IsGenericDefault(result.value) /\ result.value.priority = Baseline)
  /\ (/\ Applied("strategic_recommendation")
      /\ ~location_data.has_location
      /\ NoRuleMatches
      /\ ~TreeMatches) =>
       (IsGenericDefault(result.value) /\ result.value.priority = Baseline)

\* General Feedback with no aspect and two negative sentiments: default, High.
C7_Witness ==
  /\ Applied("strategic_recommendation")
  /\ ~location_data.has_location
  /\ category = "General Feedback"
  /\ aspects = <<>>
  /\ bert_sentiment.sentiment = "negative"
  /\ vader_sentiment.sentiment = "negative"
  /\ IsGenericDefault(result.value)
  /\ result.value.priority = "High"

(***************************************************************************)
(* Properties of the text functions (SpecText)                             *)
(***************************************************************************)
Buckets ==
  <<[words |-> complaint_words, label |-> "Complaint / Criticism"],
    [words |-> praise_words, label |-> "Praise / Satisfaction"],
    [words |-> suggestion_words, label |-> "Suggestion / Feature Request"],
    [words |-> purchase_words, label |-> "Purchase Intent / Inquiry"],
    [words |-> comparison_words, label |-> "Competitive Comparison"]>>

\* Some word of the list occurs in the lower-cased comment.
Occurs(words) ==
  \E k \in 1..Len(words) : Contains(lower(text), S(words[k]))

\* C8: predict_category_fallback returns exactly one of the six labels: the label of
\* the first bucket (complaint, praise, suggestion, purchase intent, comparison)
\* with a keyword in the lower-cased text, General Feedback when there is none; a
\* text matching only comparison words or a competitor brand is a comparison.
C8_FirstBucketWins ==
  Applied("predict_category_fallback") =>
    /\ result.value \in FallbackLabels
    /\ \A i \in 1..Len(Buckets) :
         (Occurs(Buckets[i].words) /\ \A j \in 1..(i - 1) : ~Occurs(Buckets[j].words))
           => result.value = Buckets[i].label
    /\ (\A i \in 1..Len(Buckets) : ~Occurs(Buckets[i].words))
         => result.value = "General Feedback"

\* A comment with a praise word, then a complaint word, is a complaint; the text
\* also names a competitor brand.
C8_Witness ==
  /\ Applied("predict_category_fallback")
  /\ text = S("love my Nexon EV") \o S(" ") \o S("Terrible service")
  /\ result.value = "Complaint / Criticism"

C8_WitnessBrand ==
  /\ Applied("predict_category_fallback")
  /\ text = S("vs Hyundai")
  /\ result.value = "Competitive Comparison"

TaxonomyIndex(a) == CHOOSE i \in 1..Len(aspect_keywords) : aspect_keywords[i].aspect = a

\* C9: analyze_aspects returns exactly the aspects of the ten-aspect taxonomy with
\* a keyword in the lower-cased text, each once, in taxonomy declaration order.
C9_AspectsExactInOrder ==
  Applied("analyze_aspects") =>
    LET r == result.value IN
    /\ Len(aspect_keywords) = 10
    /\ \A i \in 1..Len(r) : \E k \in 1..Len(aspect_keywords) : aspect_keywords[k].aspect = r[i]
    /\ \A i \in 1..Len(r) : \A j \in 1..Len(r) :
         i < j => TaxonomyIndex(r[i]) < TaxonomyIndex(r[j])
    /\ \A k \in 1..Len(aspect_keywords) :
         (\E i \in 1..Len(r) : r[i] = aspect_keywords[k].aspect)
           <=> Occurs(aspect_keywords[k].keywords)

\* The EV keyword precedes the Service keyword in the text; Service is listed first.
C9_Witness ==
  /\ Applied("analyze_aspects")
  /\ text = S("love my Nexon EV") \o S(" ") \o S("Terrible service")
  /\ result.value = <<"Service", "EV">>

(***************************************************************************)
(* Properties of the memoised detectors (SpecCache)                        *)
(***************************************************************************)
\* C10: within one process, every call of analyze_aspects and of detect_location
\* with the same text returns the result the first call returned (same aspects in
\* the same order; same cities, states, regions and has_location), whatever texts
\* were analysed in between, from the cache or recomputed after eviction.
C10_RepeatedCallsAgree ==
  (text = Probe /\ result.op \in {"analyze_aspects", "detect_location"}) =>
    /\ first_returned[result.op] # None
    /\ result.value = first_returned[result.op].value

\* Probe is requested again after the pool pushed it out of the cache: the call
\* recomputes two cities, in the process's order, and the earlier result agrees.
C10_Witness ==
  /\ text = Probe
  /\ result.op = "detect_location"
  /\ ~result.hit
  /\ Len(location_cache) = maxsize
  /\ next_fresh > maxsize
  /\ Len(result.value.cities) = 3
  /\ result.value.regions # <<>>
  /\ first_returned["detect_location"].value = result.value

C10_WitnessHit ==
  /\ text = Probe
  /\ result.op = "analyze_aspects"
  /\ result.hit
  /\ Len(aspects_cache) > 2
  /\ result.value = <<"Service">>


PoolTexts == [n \in 1..PoolSize |-> PoolText(n)]

\* The number of distinct comments the client has sent.
SentCount == next_fresh - 1 + (IF last_probe = 0 THEN 0 ELSE 1)

\* The k-th of them, the least recently sent first: the pool comments in pool
\* order, Probe standing where it was last sent.
SentAt(k) ==
  IF last_probe = 0 \/ k < last_probe THEN PoolTexts[k]
  ELSE IF k = last_probe THEN Probe
  ELSE PoolTexts[k - 1]

\* The comments sent most recently, as many as a cache holds, the least recent
\* first.
MostRecentlySent ==
  LET held == IF SentCount < maxsize THEN SentCount ELSE maxsize
  IN  [i \in 1..held |-> SentAt(SentCount - held + i)]

KeysOf(cache) == [i \in 1..Len(cache) |-> cache[i].key]

\* A cache keyed by the text: at most maxsize entries, each holding what the
\* function returns for its key.
KeyedByText(cache, computed(_)) ==
  /\ Len(cache) <= maxsize
  /\ \A i \in 1..Len(cache) : cache[i].value = computed(cache[i].key)

\* C23: after any sequence of calls each of the three caches (learned sentiment,
\* aspects, location) is keyed by the input text and holds at most 128 entries,
\* and its entries are those of the distinct texts passed to its function most
\* recently: a new text added to a full cache evicts the least recently used
\* entry.
C23_BoundedLeastRecentlyUsed ==
  /\ KeyedByText(bert_cache, LAMBDA t : BertComputed)
  /\ KeyedByText(aspects_cache, LAMBDA t : AspectsComputed[t])
  /\ KeyedByText(location_cache, LAMBDA t : LocationComputed[hash_order][t])
  /\ KeysOf(bert_cache) = MostRecentlySent
  /\ pc \in {"aspects_done", "idle"} => KeysOf(aspects_cache) = MostRecentlySent
  /\ pc = "idle" => KeysOf(location_cache) = MostRecentlySent

\* The caches are full, Probe was sent again after pool comments had followed its
\* first request, and a later new comment evicted the oldest pool comment, not
\* Probe.
C23_Witness ==
  /\ pc = "idle"
  /\ Len(bert_cache) = maxsize
  /\ Len(aspects_cache) = maxsize
  /\ Len(location_cache) = maxsize
  /\ next_fresh = maxsize + 2
  /\ last_probe = maxsize
  /\ location_cache[1].key = PoolTexts[3]
  /\ location_cache[maxsize - 2].key = Probe
  /\ bert_cache[maxsize - 2].key = Probe

(***************************************************************************)
(* Properties of the location resolver (SpecText) and of the location      *)
(* context (SpecRecommend)                                                 *)
(***************************************************************************)
\* C16: for every text, detect_location returns has_location = true if and only
\* if cities or states is non-empty.
C16_HasLocationIff ==
  Applied("detect_location") =>
    (result.value.has_location
       <=> (result.value.cities # <<>> \/ result.value.states # <<>>))

\* A comment naming a state and no city has a location.
C16_Witness ==
  /\ Applied("detect_location")
  /\ text = S("Kerala")
  /\ result.value.cities = <<>>
  /\ result.value.states = <<"Kerala">>
  /\ result.value.has_location

\* The region of each special-cased city, as the if-chain of detect_location
\* and the state lists of REGIONAL_MAPPING resolve it.
DisambiguationTable ==
  [city \in {"Mumbai", "Pune", "Nagpur", "Nashik", "Aurangabad", "Delhi", "New Delhi",
             "Gurgaon", "Faridabad", "Noida", "Bangalore", "Mysore", "Chennai",
             "Madurai", "Coimbatore", "Kolkata", "Howrah", "Hyderabad", "Ahmedabad",
             "Rajkot", "Vadodara", "Jaipur", "Jodhpur", "Udaipur"} |->
     IF city \in {"Mumbai", "Pune", "Nagpur", "Nashik", "Aurangabad", "Ahmedabad",
                  "Rajkot", "Vadodara"} THEN {"West"}
     ELSE IF city \in {"Delhi", "New Delhi", "Gurgaon", "Faridabad", "Noida", "Jaipur",
                       "Jodhpur", "Udaipur"} THEN {"North"}
     ELSE IF city \in {"Kolkata", "Howrah"} THEN {"East"}
     ELSE {"South"}]

Members(xs) == {xs[i] : i \in 1..Len(xs)}

\* The regions whose state list contains the state.
RegionsOfState(state) ==
  {REGIONAL_MAPPING[i].region : i \in
     {i \in 1..Len(REGIONAL_MAPPING) : state \in Members(REGIONAL_MAPPING[i].states)}}

\* C17: the regions returned by detect_location are exactly the union of the
\* regions the disambiguation table assigns to the matched special-cased cities and
\* of all regions whose state list contains a matched state, each once; a matched
\* city outside the table is listed in cities and adds no region.
C17_RegionsAreUnion ==
  Applied("detect_location") =>
    LET r == result.value
        fromCities == UNION {DisambiguationTable[c] :
                               c \in Members(r.cities) \cap DOMAIN DisambiguationTable}
        fromStates == UNION {RegionsOfState(s) : s \in Members(r.states)}
    IN  /\ Members(r.regions) = fromCities \cup fromStates
        /\ Cardinality(Members(r.regions)) = Len(r.regions)
        /\ \A i \in 1..Len(INDIAN_CITIES) :
             Contains(upper(text), upper(S(INDIAN_CITIES[i])))
               => INDIAN_CITIES[i] \in Members(r.cities)

\* Lucknow is matched and has no entry in the table; Kerala brings region South.
C17_Witness ==
  /\ Applied("detect_location")
  /\ text = S("Lucknow") \o S(" ") \o S("Kerala")
  /\ result.value.cities = <<"Lucknow">>
  /\ result.value.states = <<"Kerala">>
  /\ result.value.regions = <<"South">>

\* The clause the action carries for a primary city.
CityClause(city) ==
  IF city \in {"Mumbai", "Delhi", "Bangalore", "Chennai", "Kolkata", "Hyderabad"}
    THEN S("Prioritize ") \o S(city) \o S(" metro market initiatives")
  ELSE IF city \in {"Pune", "Jaipur", "Ahmedabad", "Lucknow", "Kanpur", "Nagpur"}
    THEN S("Strengthen ") \o S(city) \o S(" tier-2 market presence")
  ELSE S("Develop ") \o S(city) \o S(" emerging market strategy")

\* C18: in the location_context of an augmented recommendation geographic_focus is
\* the first detected city, else the first region, else "National"; market_type is
\* Metro exactly when the first detected city is one of the six metro cities, else
\* Regional; and the action contains the metro-market clause of a metro first city,
\* the tier-2 clause of a tier-2 first city, the emerging-market clause of any other.
C18_LocationContext ==
  (Applied("generate_location_recommendation") /\ location_data.has_location) =>
    LET cities == location_data.cities
        regions == location_data.regions
        context == result.value.location_context
    IN  /\ context.detected_locations = location_data
        /\ context.geographic_focus =
             (IF cities # <<>> THEN cities[1]
              ELSE IF regions # <<>> THEN regions[1]
              ELSE "National")
        /\ context.market_type \in {"Metro", "Regional"}
        /\ context.market_type = "Metro" <=>
             (/\ cities # <<>>
              /\ cities[1] \in {"Mumbai", "Delhi", "Bangalore", "Chennai", "Kolkata",
                                "Hyderabad"})
        /\ cities # <<>> => Contains(result.value.action, CityClause(cities[1]))

\* A tier-2 city of no region: the focus is the city, the market Regional, and the
\* action carries the tier-2 clause.
C18_Witness ==
  /\ Applied("generate_location_recommendation")
  /\ location_data.cities = <<"Lucknow">>
  /\ location_data.regions = <<>>
  /\ result.value.location_context.geographic_focus = "Lucknow"
  /\ result.value.location_context.market_type = "Regional"
  /\ Contains(result.value.action, S("Strengthen Lucknow tier-2 market presence"))

C18_WitnessNational ==
  /\ Applied("generate_location_recommendation")
  /\ location_data.has_location
  /\ location_data.cities = <<>>
  /\ location_data.regions = <<>>
  /\ result.value.location_context.geographic_focus = "National"

(***************************************************************************)
(* Properties of the sentiment analysers (SpecSentiment)                   *)
(***************************************************************************)
\* The learned model is unavailable, or its call raises.
BertFails == bert_classifier = None \/ "raises" \in DOMAIN bert_call

C19_LabelFromCompound ==
  (/\ Applied("vader_sentiment_analysis")
   /\ vader_analyzer # None
   /\ "returns" \in DOMAIN vader_call) =>
    LET compound == vader_call.returns.compound
        label == result.value.sentiment
    IN  /\ ~result.raised
        /\ label \in {"positive", "negative", "neutral"}
        /\ label = "positive" <=> compound >= 5000
        /\ label = "negative" <=> compound <= -5000
        /\ label = "neutral" <=> (compound > -5000 /\ compound < 5000)
        /\ result.value.scores.compound * 10 = compound

\* The compound score is exactly 0.05.
C19_Witness ==
  /\ Applied("vader_sentiment_analysis")
  /\ vader_analyzer = Analyzer
  /\ "returns" \in DOMAIN vader_call
  /\ vader_call.returns.compound = 5000
  /\ result.value.sentiment = "positive"
  /\ result.value.scores.compound = 500

C19_WitnessNegative ==
  /\ Applied("vader_sentiment_analysis")
  /\ vader_analyzer = Analyzer
  /\ "returns" \in DOMAIN vader_call
  /\ vader_call.returns.compound = -5000
  /\ result.value.sentiment = "negative"

(***************************************************************************)
(* Properties of the recommendation engine on degraded inputs (SpecEngine) *)
(***************************************************************************)
EngineFunctions ==
  {"generate_recommendation", "generate_recommendation_v2",
   "generate_location_recommendation"}

\* A recommendation: a dict with the four fields, the texts being strs.
IsRecommendation(r) ==
  /\ {"insight", "strategy", "action", "priority"} \subseteq DOMAIN r
  /\ r.priority \in {"Low", "Medium", "High"}
  /\ Len(r.insight) > 0
  /\ Len(r.action) > 0
  /\ r.strategy # ""

\* C14: the recommendation engine never raises: for every category (also one
\* absent from the rule table), every aspect list (also the empty one), every pair
\* of sentiment results (also failure results) and every location info,
\* generate_recommendation, generate_recommendation_v2 and
\* generate_location_recommendation return a recommendation with insight,
\* strategy, action and a priority in {Low, Medium, High}.
C14_EngineAlwaysRecommends ==
  result.op \in EngineFunctions => IsRecommendation(result.value)

\* An unknown category, no aspect, both analysers failed, a state of no region.
C14_Witness ==
  /\ Applied("generate_location_recommendation")
  /\ category = "Spam"
  /\ aspects = <<>>
  /\ "error" \in DOMAIN bert_sentiment
  /\ "error" \in DOMAIN vader_sentiment
  /\ location_data.states = <<"Ladakh">>
  /\ result.value.priority = "Low"
  /\ "location_context" \in DOMAIN result.value

(***************************************************************************)
(* Properties of the /analyze handler (SpecRequest)                        *)
(***************************************************************************)
\* C13: every /analyze request terminates even when the learned classifier call
\* never returns: the call is time-bounded, so a handler waiting inside
\* bert_classifier(text) has a step of its own to take (the timeout) and does not
\* depend on the library coming back.
C13_ClassifierCallTimeBounded ==
  pc = "bert_waiting" => ENABLED (Validate \/ BertLookup \/ Finish)

\* The request in progress has been received, or the last one was answered.
RequestSeen == pc # "idle" \/ result.op = "analyze_comment"

Rejected(data) ==
  \/ data = None
  \/ "text" \notin DOMAIN data
  \/ \A i \in 1..Len(data.text) : data.text[i] \in Whitespace

\* C20: a /analyze request whose payload lacks the text field, or whose text is
\* empty or whitespace-only, is rejected with a 400 error before any detector
\* runs: the handler never leaves validation, no sentiment, aspect, location or
\* category function is called, and the caches stay as the request found them.
C20_RejectedBeforeDetectors ==
  (RequestSeen /\ Rejected(payload)) =>
    /\ pc \in {"validating", "idle"}
    /\ calls.functions = {}
    /\ Caches = calls.caches
    /\ pc = "idle" => (result.status = 400 /\ "error" \in DOMAIN result.body)

\* A whitespace-only text was rejected while the caches held earlier comments.
C20_Witness ==
  /\ pc = "idle"
  /\ payload = [text |-> S(" \t\n")]
  /\ result.op = "analyze_comment"
  /\ result.status = 400
  /\ result.body = [error |-> "Text cannot be empty"]
  /\ calls.functions = {}
  /\ location_cache # <<>>
  /\ bert_cache # <<>>

\* bert_sentiment_analysis answered the request in progress from its cache: the
\* model is loaded and bert_classifier was not called.
AnsweredFromCache ==
  /\ pc = "vader"
  /\ bert_classifier # None
  /\ "bert_classifier" \notin calls.functions

\* C26: a failure result of the learned classifier is never replayed from the
\* cache: when a call of bert_sentiment_analysis for a text is answered from the
\* cache while the model is loaded, the answer is not the neutral error result
\* of an earlier failed call.
C26_FailureNotReplayed ==
  AnsweredFromCache => "error" \notin DOMAIN bert_sentiment

\* Every entry the cache had before the step and still has holds the same value.
EntriesKept(cache, after) ==
  \A i \in 1..Len(cache) : \A j \in 1..Len(after) :
    after[j].key = cache[i].key => after[j].value = cache[i].value

\* C24: after startup no step of an /analyze request, with or without a detected
\* location, changes the rule table, the default recommendation, the gazetteers,
\* the regional mapping or the trained intent model, and none changes a result
\* the detector caches hold.
C24_StaticStateImmutable ==
  [][/\ tables' = tables
     /\ intent_classifier' = intent_classifier
     /\ EntriesKept(location_cache, location_cache')
     /\ EntriesKept(aspects_cache, aspects_cache')]_vars

\* A comment with a location was answered with an augmented recommendation after
\* an earlier comment had been answered with an entry of the rule table, and the
\* tables are as they were built.
C24_Witness ==
  /\ pc = "idle"
  /\ result.op = "analyze_comment"
  /\ result.status = 200
  /\ result.body.location_analysis.has_location
  /\ "location_context" \in DOMAIN result.body.strategic_recommendation
  /\ \E i \in 1..Len(aspects_cache) : aspects_cache[i].key = S("Terrible service")
  /\ tables = StaticTables

(***************************************************************************)
(* Reproducibility between runs (SpecText)                                 *)
(***************************************************************************)
\* C21: for a fixed text the cities list returned by detect_location, hence the
\* primary city, and the regions list, hence the primary region, are the same in
\* every run of the program: whatever iteration order the process gives its
\* sets, the lists are those of the process that iterates in declaration order.
C21_SameOrderInEveryRun ==
  Applied("detect_location") =>
    /\ result.value.cities = detect_location_ordered("declared", text).cities
    /\ result.value.regions = detect_location_ordered("declared", text).regions

(***************************************************************************)
(* The rule table against the vocabularies of the detectors (SpecText)     *)
(***************************************************************************)
\* C29: every entry of the rule table is reachable: for each key (category,
\* aspect) of RECOMMENDATION_RULES the aspect is one of the ten aspects
\* analyze_aspects can return and the category is one of the six labels the
\* fallback classifier can return, whatever comment the two are applied to.
C29_EveryRuleReachable ==
  (Applied("analyze_aspects") \/ Applied("predict_category_fallback")) =>
    \A key \in DOMAIN RECOMMENDATION_RULES :
      /\ key[1] \in FallbackLabels
      /\ \E i \in 1..Len(aspect_keywords) : aspect_keywords[i].aspect = key[2]

(***************************************************************************)
(* The dashboard's brand identification (SpecDashboard)                    *)
(***************************************************************************)
\* The backend answered 200 with a brand_analysis.
BackendGivesBrand ==
  /\ "returns" \in DOMAIN backend_call
  /\ backend_call.returns.status_code = 200
  /\ "json" \in DOMAIN backend_call.returns
  /\ "brand_analysis" \in DOMAIN backend_call.returns.json

\* C30: identify_brand_with_backend always returns a brand label (the backend's
\* primary_brand, or one of Competitor, Tata Motors, Unspecified) for every
\* backend outcome: a 200 response with or without brand_analysis, a non-200
\* response, a failed request; with use_fallback true the keyword fallback is
\* used whenever the backend gives no brand.
C30_AlwaysABrandLabel ==
  Applied("identify_brand_with_backend") =>
    /\ "brand" \in DOMAIN result.value
    /\ result.value.brand \in {"Mahindra", "Competitor", "Tata Motors", "Unspecified"}
    /\ (use_fallback /\ ~BackendGivesBrand) =>
         result.value = identify_brand_fallback(text)

(***************************************************************************)
(* Properties of the decision tree (SpecRecommend)                         *)
(***************************************************************************)
\* C22: in the decision tree the most salient aspect of the category decides the
\* recommendation for every pair of sentiment results: Complaint / Criticism with
\* Service yields Service Excellence Initiative, Complaint / Criticism with EV and
\* no Service yields EV Experience Enhancement, Praise / Satisfaction with
\* Features yields Feature Leadership Amplification.
C22_SalientAspectDecides ==
  Applied("generate_recommendation") =>
    /\ (category = "Complaint / Criticism" /\ InList("Service", aspects)) =>
         result.value.strategy = "Service Excellence Initiative"
    /\ (category = "Complaint / Criticism" /\ InList("EV", aspects)
        /\ ~InList("Service", aspects)) =>
         result.value.strategy = "EV Experience Enhancement"
    /\ (category = "Praise / Satisfaction" /\ InList("Features", aspects)) =>
         result.value.strategy = "Feature Leadership Amplification"

\* C25: in the decision tree a comment of category Purchase Intent / Inquiry
\* always receives the Sales Conversion Optimization recommendation and one of
\* category Competitive Comparison the Competitive Positioning recommendation,
\* for every aspect list and every pair of sentiment results.
C25_CategoryAloneDecides ==
  Applied("generate_recommendation") =>
    /\ category = "Purchase Intent / Inquiry" =>
         result.value.strategy = "Sales Conversion Optimization"
    /\ category = "Competitive Comparison" =>
         result.value.strategy = "Competitive Positioning"

\* No aspect of the list has a rule for the category: the lookup returns the
\* static default.
NoRuleFor(cat, asp) == \A i \in 1..Len(asp) : ~HasRule(cat, asp[i])

\* C28: the recommendation /analyze puts in its response is never the static
\* DEFAULT_RECOMMENDATION (strategy Personalized Response Strategy): whenever the
\* rule-table lookup returns it, the response carries a decision-tree
\* recommendation (with its sentiment_consensus) instead, and so does every
\* response for a comment with a location.
C28_NeverStaticDefault ==
  Applied("strategic_recommendation") =>
    /\ result.value # DEFAULT_RECOMMENDATION
    /\ result.value.strategy # DEFAULT_RECOMMENDATION.strategy
    /\ (location_data.has_location \/ NoRuleFor(category, aspects)) =>
         "sentiment_consensus" \in DOMAIN result.value

\* No location and no rule for (General Feedback, Price): the lookup returned the
\* static default and the response carries the decision tree's generic default.
C28_Witness ==
  /\ Applied("strategic_recommendation")
  /\ ~location_data.has_location
  /\ category = "General Feedback"
  /\ aspects = <<"Price">>
  /\ generate_recommendation_v2(category, aspects, bert_sentiment, vader_sentiment)
       = DEFAULT_RECOMMENDATION
  /\ result.value.strategy = "Customer Relationship Management"

(***************************************************************************)
(* Properties of concurrent requests (SpecConcurrent)                      *)
(***************************************************************************)
\* The response a comment gets from a process that serves it alone: every
\* function is applied to the stripped comment, no cache holding anything.
Alone(sent) ==
  LET comment == strip(sent) IN
  Response(comment,
           bert_sentiment_analysis(comment, DeterministicBert(comment)).value,
           vader_sentiment_analysis(comment, DeterministicVader(comment)).value,
           analyze_aspects(comment),
           detect_location(comment),
           predict_category(comment, DeterministicPredict(comment)).value)

\* C27: concurrent /analyze requests do not interfere: under every interleaving
\* of requests that share the three caches and the models, the response of each
\* request is the response its text gets when it is analysed alone, the models
\* being deterministic.
C27_ConcurrentRequestsIndependent ==
  \A tid \in Threads :
    (threads[tid].pc = "idle" /\ threads[tid].response # None) =>
      threads[tid].response = Alone(threads[tid].sent)

\* Thread 1 has been answered for " Mumbai price " while thread 2, which received
\* "Terrible service" after it, is inside detect_location, both threads having
\* used the cache of bert_sentiment_analysis.
C27_Witness ==
  /\ threads[1].pc = "idle"
  /\ threads[1].sent = S(" Mumbai price ")
  /\ threads[1].response # None
  /\ threads[1].response.input_text = S("Mumbai price")
  /\ threads[2].pc = "location_miss"
  /\ threads[2].sent = S("Terrible service")
  /\ text = S("Terrible service")
  /\ Len(bert_cache) = 2
=============================================================================
